---- MODULE Spec2Model ----
(***************************************************************************)
(* Model of the MCP Waifu Chat server (mcp_waifu_chat): the SQLite dialog  *)
(* store of db.py, the tools of api.py that use it, and the reply          *)
(* normalisation of ai.generate_response.                                  *)
(*                                                                         *)
(* Callers are concurrent requests (tasks of one server, or servers that   *)
(* share the database file).  Every db.py function runs one statement in   *)
(* one connection and commits, so its transaction is one atomic step.  The *)
(* clock reads that add_user_to_db and update_user_dialog make before they *)
(* open the connection belong to the step before the transaction: the      *)
(* start of the call, or for chat the return of the provider call.         *)
(***************************************************************************)
EXTENDS Integers, Sequences, FiniteSets, TLC

VARIABLES
    dialogs,   \* the rows of table dialogs
    now,       \* the wall clock, in seconds
    pc,        \* pc[c]: position of caller c inside its current call
    local,     \* local[c]: local variables of the call in flight
    ret,       \* outcome of the call that completed last
    calls,     \* number of calls started so far
    deleted,   \* <<current_user, user_id, t>>: a DELETE removed the row of this
               \* key; t tells whether its transcript was non-empty
    created,   \* <<current_user, user_id>>: an INSERT of this key succeeded (in
               \* this run or an earlier one) and no DELETE removed its row since
    environ,   \* os.environ: the value of each environment variable, or None
    home,      \* the dotfiles of the home directory: their content, or None
    ai,        \* the module globals of ai.py: the credential and client caches
    config,    \* the Config object of the process
    session    \* session[k]: whether the row of key k was inserted by a create
               \* that only chats followed, and the message and the reply of
               \* each chat that wrote to the row, in order

vars == <<dialogs, now, pc, local, ret, calls, deleted, created,
          environ, home, ai, config, session>>

-----------------------------------------------------------------------------
(* Bounds *)

MaxCalls == 2
MaxClock == 2
\* the most rows of one owner, and the last page that is read
MaxRows == 201
MaxPage == 3
\* the most turns of a transcript that is parsed
MaxTurns == 2
\* the most chats of a run of sequential calls
MaxChats == 2

\* the requests that can be in flight at once; a new request takes the first
\* free slot
Callers == {"c1", "c2"}
Slot == [c1 |-> 1, c2 |-> 2]
Messages == {"hi"}
ProviderTexts == {"hello"}
WrittenDialogs == {"Test dialog"}

-----------------------------------------------------------------------------
(* Program constants *)

NoCurrentUser == "0_no_current_user_specified"
default_response == "The AI model is currently unavailable. Please try again later."

\* Python's None
None == "<None>"
\* a request without the current-user header
NoHeader == "<no header>"

\* the (current-user header, user_id) pairs of the requests: two users of one
\* owner, and one user id under two owners
Requests == {<<"alice", "u1">>, <<"alice", "u2">>, <<NoHeader, "u1">>}
Headers == {rq[1] : rq \in Requests}

NoError == "<no error>"
IntegrityError == "sqlite3.IntegrityError"

-----------------------------------------------------------------------------
(* api._get_current_user *)

\* the header is ignored: every request gets the default owner
_get_current_user_shared(header) == NoCurrentUser

_get_current_user(header) == IF header = NoHeader THEN NoCurrentUser ELSE header

\* the (current_user, user_id) keys that the requests address
Keys == {<<_get_current_user(rq[1]), rq[2]>> : rq \in Requests}
CurrentUsers == {k[1] : k \in Keys}

\* no create has run
NoSession == [k \in Keys |-> [open |-> FALSE, turns |-> << >>]]

-----------------------------------------------------------------------------
(* The clock: str(datetime.now().strftime("%Y-%m-%d %H:%M:%S")) and         *)
(* int(time.time()).                                                       *)

strftime(t) == "1970-01-01 00:00:" \o (IF t < 10 THEN "0" ELSE "") \o ToString(t)

time_time(t) == t

-----------------------------------------------------------------------------
(* SQL statements on table dialogs, PRIMARY KEY (current_user, user_id).   *)
(* A statement yields the table it leaves and the error it raises.         *)

Row(cu, uid, dialog, dt, ts) ==
    [current_user |-> cu, user_id |-> uid, dialog |-> dialog,
     last_modified_datetime |-> dt, last_modified_timestamp |-> ts]

Matching(tbl, cu, uid) == {r \in tbl : r.current_user = cu /\ r.user_id = uid}

\* cursor.fetchone(): <<row>> for a row of the result, or NoRow (None) when
\* the result is empty
NoRow == << >>

fetchone(rows) == IF rows = {} THEN NoRow ELSE << CHOOSE r \in rows : TRUE >>

\* INSERT OR REPLACE in place of INSERT
sql_insert_replace(tbl, row) ==
    [table |-> (tbl \ Matching(tbl, row.current_user, row.user_id)) \cup {row},
     error |-> NoError]

\* a table without its PRIMARY KEY
sql_insert_nopk(tbl, row) ==
    [table |-> tbl \cup {row}, error |-> NoError]

sql_insert(tbl, row) ==
    IF Matching(tbl, row.current_user, row.user_id) # {}
    THEN [table |-> tbl, error |-> IntegrityError]
    ELSE [table |-> tbl \cup {row}, error |-> NoError]

\* SET dialog = dialog || ? in place of SET dialog = ?
sql_update_append(tbl, cu, uid, dialog, dt, ts) ==
    [table |-> {IF r.current_user = cu /\ r.user_id = uid
                THEN [r EXCEPT !.dialog = r.dialog \o dialog,
                               !.last_modified_datetime = dt,
                               !.last_modified_timestamp = ts]
                ELSE r : r \in tbl},
     error |-> NoError]

\* an upsert in place of UPDATE
sql_update_upsert(tbl, cu, uid, dialog, dt, ts) ==
    [table |-> (tbl \ Matching(tbl, cu, uid)) \cup {Row(cu, uid, dialog, dt, ts)},
     error |-> NoError]

\* SET dialog = ? alone: the two last-modified columns keep their values
sql_update_stale(tbl, cu, uid, dialog, dt, ts) ==
    [table |-> {IF r.current_user = cu /\ r.user_id = uid
                THEN [r EXCEPT !.dialog = dialog]
                ELSE r : r \in tbl},
     error |-> NoError]

\* the UPDATE without last_modified_datetime = ?
sql_update_epoch_only(tbl, cu, uid, dialog, dt, ts) ==
    [table |-> {IF r.current_user = cu /\ r.user_id = uid
                THEN [r EXCEPT !.dialog = dialog,
                               !.last_modified_timestamp = ts]
                ELSE r : r \in tbl},
     error |-> NoError]

\* UPDATE ... WHERE current_user=? without the user_id
sql_update_owner(tbl, cu, uid, dialog, dt, ts) ==
    [table |-> {IF r.current_user = cu
                THEN [r EXCEPT !.dialog = dialog,
                               !.last_modified_datetime = dt,
                               !.last_modified_timestamp = ts]
                ELSE r : r \in tbl},
     error |-> NoError]

sql_update(tbl, cu, uid, dialog, dt, ts) ==
    [table |-> {IF r.current_user = cu /\ r.user_id = uid
                THEN [r EXCEPT !.dialog = dialog,
                               !.last_modified_datetime = dt,
                               !.last_modified_timestamp = ts]
                ELSE r : r \in tbl},
     error |-> NoError]

\* DELETE ... WHERE current_user=? without the user_id
sql_delete_owner(tbl, cu, uid) ==
    [table |-> {r \in tbl : r.current_user # cu}, error |-> NoError]

sql_delete(tbl, cu, uid) ==
    [table |-> tbl \ Matching(tbl, cu, uid), error |-> NoError]

\* What can go wrong in the store during one operation: sqlite3.connect
\* raises (the file cannot be opened), the statement raises (the database is
\* locked), or the commit raises.
OperationalError == "sqlite3.OperationalError"
Faults == {"none", "connect", "execute", "commit"}

\* get_db_connection without its finally clause: the connection is closed
\* after the commit only
get_db_connection_noclose(tbl, body, fault) ==
    IF fault = "connect"
    THEN [table |-> tbl, raised |-> OperationalError, events |-> <<"connect raises">>]
    ELSE LET executed == IF fault = "execute"
                         THEN [table |-> tbl, error |-> OperationalError]
                         ELSE body
         IN  IF executed.error # NoError
             THEN [table |-> tbl, raised |-> executed.error,
                   events |-> <<"connect", "execute raises", "rollback">>]
             ELSE IF fault = "commit"
             THEN [table |-> tbl, raised |-> OperationalError,
                   events |-> <<"connect", "execute", "commit raises", "rollback">>]
             ELSE [table |-> executed.table, raised |-> NoError,
                   events |-> <<"connect", "execute", "commit", "close">>]

\* db.get_db_connection around one statement: connect, run the body, commit
\* when it raised nothing; on sqlite3.Error roll back to the table as it was
\* and re-raise; close in every case.  body is what the statement does when
\* the store does not fail; events are the calls made on the connection.
get_db_connection(tbl, body, fault) ==
    IF fault = "connect"
    THEN [table |-> tbl, raised |-> OperationalError, events |-> <<"connect raises">>]
    ELSE LET executed == IF fault = "execute"
                         THEN [table |-> tbl, error |-> OperationalError]
                         ELSE body
         IN  IF executed.error # NoError
             THEN [table |-> tbl, raised |-> executed.error,
                   events |-> <<"connect", "execute raises", "rollback", "close">>]
             ELSE IF fault = "commit"
             THEN [table |-> tbl, raised |-> OperationalError,
                   events |-> <<"connect", "execute", "commit raises", "rollback", "close">>]
             ELSE [table |-> executed.table, raised |-> NoError,
                   events |-> <<"connect", "execute", "commit", "close">>]

-----------------------------------------------------------------------------
(* db.py read functions *)

\* str(result) of a missing row in place of ""
get_old_dialog_none(tbl, cu, uid) ==
    LET result == fetchone(Matching(tbl, cu, uid))
    IN  IF result # NoRow THEN result[1].dialog ELSE "None"

get_old_dialog(tbl, cu, uid) ==
    LET result == fetchone(Matching(tbl, cu, uid))
    IN  IF result # NoRow THEN result[1].dialog ELSE ""

get_user_dialog(tbl, cu, uid) == get_old_dialog(tbl, cu, uid)

is_user_id_in_db(tbl, cu, uid) == fetchone(Matching(tbl, cu, uid)) # NoRow

\* SELECT COUNT(*) FROM dialogs without the WHERE clause
get_user_count_all(tbl, cu) == Cardinality(tbl)

get_user_count(tbl, cu) == Cardinality({r \in tbl : r.current_user = cu})

get_user_last_modified_datetime(tbl, cu, uid) ==
    LET result == fetchone(Matching(tbl, cu, uid))
    IN  IF result # NoRow THEN result[1].last_modified_datetime ELSE ""

get_user_last_modified_timestamp(tbl, cu, uid) ==
    LET result == fetchone(Matching(tbl, cu, uid))
    IN  IF result # NoRow THEN result[1].last_modified_timestamp ELSE 0

-----------------------------------------------------------------------------
(* db.get_all_users_paged: SELECT user_id ... WHERE current_user=?         *)
(* ORDER BY last_modified_timestamp DESC LIMIT page * 100, 100.            *)

PageSize == 100

\* the user ids of the model: those of the requests, and test_user0,
\* test_user1, ... of a populated table, in the order in which a scan of the
\* table meets them
TestUser(i) == "test_user" \o ToString(i)
UserIds == <<"u1", "u2">> \o [i \in 1..MaxRows |-> TestUser(i - 1)]

\* SQL leaves the order of rows with equal sort keys open: they come out in
\* scan order or against it
TieOrders == {"scan", "reverse"}

Reverse(seq) == [i \in 1..Len(seq) |-> seq[Len(seq) + 1 - i]]

\* the user ids of the rows with timestamp ts, in the order tie
TiedUsers(rows, ts, tie) ==
    LET ids == {r.user_id : r \in {q \in rows : q.last_modified_timestamp = ts}}
        inscan == SelectSeq(UserIds, LAMBDA u : u \in ids)
    IN  IF tie = "scan" THEN inscan ELSE Reverse(inscan)

\* ORDER BY last_modified_timestamp DESC over the timestamps tss
RECURSIVE order_by_timestamp_desc(_, _, _)
order_by_timestamp_desc(rows, tss, tie) ==
    IF tss = {} THEN << >>
    ELSE LET latest == CHOOSE t \in tss : \A u \in tss : u <= t
         IN  TiedUsers(rows, latest, tie)
                \o order_by_timestamp_desc(rows, tss \ {latest}, tie)

\* LIMIT offset, count
sql_limit(seq, offset, count) ==
    SubSeq(seq, offset + 1,
           IF offset + count < Len(seq) THEN offset + count ELSE Len(seq))

\* the page starts at row page in place of row page * 100
get_all_users_paged_offset(tbl, cu, page, tie) ==
    LET rows == {r \in tbl : r.current_user = cu}
        ordered == order_by_timestamp_desc(
                      rows, {r.last_modified_timestamp : r \in rows}, tie)
    IN  sql_limit(ordered, page, PageSize)

\* the query without its ORDER BY clause: the rows in the order tie of the scan
get_all_users_paged_unordered(tbl, cu, page, tie) ==
    LET ids == {r.user_id : r \in {q \in tbl : q.current_user = cu}}
        inscan == SelectSeq(UserIds, LAMBDA u : u \in ids)
    IN  sql_limit(IF tie = "scan" THEN inscan ELSE Reverse(inscan),
                  page * PageSize, PageSize)

get_all_users_paged(tbl, cu, page, tie) ==
    LET rows == {r \in tbl : r.current_user = cu}
        ordered == order_by_timestamp_desc(
                      rows, {r.last_modified_timestamp : r \in rows}, tie)
    IN  sql_limit(ordered, page * PageSize, PageSize)

-----------------------------------------------------------------------------
(* db.py write functions, as transactions *)

\* the INSERT leaves the dialog column out, and a later read renders its NULL
add_user_to_db_null(tbl, cu, uid, dt, ts) ==
    get_db_connection(tbl, sql_insert(tbl, Row(cu, uid, "None", dt, ts)), "none")

add_user_to_db(tbl, cu, uid, dt, ts) ==
    get_db_connection(tbl, sql_insert(tbl, Row(cu, uid, "", dt, ts)), "none")

\* the connection is closed without a commit
update_user_dialog_nocommit(tbl, cu, uid, dialog, dt, ts) ==
    [table |-> tbl, raised |-> NoError]

\* a missing row is inserted
update_user_dialog_insert(tbl, cu, uid, dialog, dt, ts) ==
    IF Matching(tbl, cu, uid) = {}
    THEN get_db_connection(tbl, sql_insert(tbl, Row(cu, uid, dialog, dt, ts)), "none")
    ELSE get_db_connection(tbl, sql_update(tbl, cu, uid, dialog, dt, ts), "none")

update_user_dialog(tbl, cu, uid, dialog, dt, ts) ==
    get_db_connection(tbl, sql_update(tbl, cu, uid, dialog, dt, ts), "none")

delete_user_from_db(tbl, cu, uid) ==
    get_db_connection(tbl, sql_delete(tbl, cu, uid), "none")

-----------------------------------------------------------------------------
(* ai.generate_response: the provider's text when it produced any, else    *)
(* the configured default reply.  text is None when the provider failed.   *)

generate_response(text) == IF text # None /\ text # "" THEN text ELSE default_response

\* the prompt without the old dialog
prompt_dialog_fresh(old_dialog, message) ==
    " User said: \"" \o message \o "\" Waifu said: \""

\* api.chat, steps 2 and 4
prompt_dialog(old_dialog, message) ==
    old_dialog \o " User said: \"" \o message \o "\" Waifu said: \""

\* the reply is left without its closing quote
complete_dialog_open(prompt, ai_response) == prompt \o ai_response

complete_dialog(prompt, ai_response) == prompt \o ai_response \o "\""

-----------------------------------------------------------------------------
(* Python strings and truth values *)

Whitespace == {" ", "\n", "\t"}

RECURSIVE lstrip(_)
lstrip(s) ==
    IF s # "" /\ SubSeq(s, 1, 1) \in Whitespace
    THEN lstrip(SubSeq(s, 2, Len(s)))
    ELSE s

RECURSIVE rstrip(_)
rstrip(s) ==
    IF s # "" /\ SubSeq(s, Len(s), Len(s)) \in Whitespace
    THEN rstrip(SubSeq(s, 1, Len(s) - 1))
    ELSE s

\* str.strip()
strip(s) == rstrip(lstrip(s))

ascii_uppercase == "ABCDEFGHIJKLMNOPQRSTUVWXYZ"
ascii_lowercase == "abcdefghijklmnopqrstuvwxyz"

\* the lower-case letter of each upper-case letter
lower_case ==
    [ch \in {SubSeq(ascii_uppercase, i, i) : i \in 1..Len(ascii_uppercase)} |->
        LET i == CHOOSE j \in 1..Len(ascii_uppercase) :
                     SubSeq(ascii_uppercase, j, j) = ch
        IN  SubSeq(ascii_lowercase, i, i)]

lower_char(ch) == IF ch \in DOMAIN lower_case THEN lower_case[ch] ELSE ch

\* str.lower()
RECURSIVE lower(_)
lower(s) ==
    IF s = "" THEN ""
    ELSE lower_char(SubSeq(s, 1, 1)) \o lower(SubSeq(s, 2, Len(s)))

\* the truth value of an Optional[str]
Truthy(v) == v # None /\ v # ""

\* a or b
PyOr(a, b) == IF Truthy(a) THEN a ELSE b

-----------------------------------------------------------------------------
(* utils.dialog_to_json and utils.json_to_dialog.  A turn is <<name,        *)
(* message>>; an entry is a record with index, name and message.           *)

Char(s, i) == IF 1 <= i /\ i <= Len(s) THEN SubSeq(s, i, i) ELSE ""

\* the length of the longest run from position p of characters that are in
\* chars (within = TRUE) or not in chars (within = FALSE)
RECURSIVE run(_, _, _, _)
run(s, p, chars, within) ==
    IF p <= Len(s) /\ ((Char(s, p) \in chars) <=> within)
    THEN 1 + run(s, p + 1, chars, within)
    ELSE 0

NoMatch == [end |-> 0, name |-> "", message |-> ""]

\* said:\s*"([^"]*)" from position i: the message and the position of the
\* closing quote, or NoMatch
match_said(s, i) ==
    IF i + 4 > Len(s) \/ SubSeq(s, i, i + 4) # "said:" THEN NoMatch
    ELSE LET open == i + 5 + run(s, i + 5, Whitespace, TRUE)
             close == open + 1 + run(s, open + 1, {"\""}, FALSE)
         IN  IF Char(s, open) = "\"" /\ Char(s, close) = "\""
             THEN [end |-> close, name |-> "", message |-> SubSeq(s, open + 1, close - 1)]
             ELSE NoMatch

\* re.match of \s*([^:]+)\s+said:\s*"([^"]*)" at position p.  The three
\* leading repetitions are greedy: of the ways to match, the engine takes the
\* one with the longest \s*, then the longest [^:]+, then the longest \s+.
match_at(s, p) ==
    LET ways ==
          UNION {UNION {{<<a, b, c>> :
                            c \in {d \in 1..run(s, p + a + b, Whitespace, TRUE) :
                                      match_said(s, p + a + b + d) # NoMatch}} :
                        b \in 1..run(s, p + a, {":"}, FALSE)} :
                 a \in 0..run(s, p, Whitespace, TRUE)}
    IN  IF ways = {} THEN NoMatch
        ELSE LET w == CHOOSE x \in ways :
                         \A y \in ways :
                             \/ y[1] < x[1]
                             \/ y[1] = x[1] /\ y[2] < x[2]
                             \/ y[1] = x[1] /\ y[2] = x[2] /\ y[3] <= x[3]
                 tail == match_said(s, p + w[1] + w[2] + w[3])
             IN  [tail EXCEPT !.name = SubSeq(s, p + w[1], p + w[1] + w[2] - 1)]

\* re.findall from position p: the matches that do not overlap, leftmost first
RECURSIVE re_findall(_, _)
re_findall(s, p) ==
    IF p > Len(s) THEN << >>
    ELSE LET m == match_at(s, p)
         IN  IF m = NoMatch THEN re_findall(s, p + 1)
             ELSE << <<m.name, m.message>> >> \o re_findall(s, m.end + 1)

\* enumerate(matches, 1): the indexes start at 1
dialog_to_json_from_one(dialog) ==
    IF dialog = "" THEN << >>
    ELSE LET matches == re_findall(dialog, 1)
         IN  [i \in 1..Len(matches) |->
                 [index |-> i,
                  name |-> strip(matches[i][1]),
                  message |-> strip(matches[i][2])]]

dialog_to_json(dialog) ==
    IF dialog = "" THEN << >>
    ELSE LET matches == re_findall(dialog, 1)
         IN  [i \in 1..Len(matches) |->
                 [index |-> i - 1,
                  name |-> strip(matches[i][1]),
                  message |-> strip(matches[i][2])]]

\* " ".join of the turns as name said: "message"
RECURSIVE json_to_dialog(_)
json_to_dialog(turns) ==
    IF turns = << >> THEN ""
    ELSE LET first == turns[1][1] \o " said: \"" \o turns[1][2] \o "\""
         IN  IF Len(turns) = 1 THEN first
             ELSE first \o " " \o json_to_dialog(Tail(turns))

-----------------------------------------------------------------------------
(* The environment of the process: os.environ and the dotfiles of the home *)
(* directory.                                                              *)

KeyVars == {"OPENROUTER_API_KEY", "GEMINI_API_KEY", "GOOGLE_API_KEY"}
ConfigVars == {"DEFAULT_PROVIDER", "OPENROUTER_MODEL_NAME", "GEMINI_MODEL_NAME"}
EnvVars == KeyVars \cup ConfigVars

KeyFiles == {".api-openrouter", ".api-gemini"}
ModelFiles == {".model-openrouter", ".model-gemini"}
DotFiles == KeyFiles \cup ModelFiles

\* a variable is unset (None), blank, or holds a padded value
EnvValues(var) ==
    IF var = "DEFAULT_PROVIDER"
    THEN {None, "", "gemini", " Gemini "}
    ELSE {None, "  ", " env-" \o var \o " "}

\* a dotfile is missing (None), empty but for its newline, or holds one line
FileContents(file) == {None, "\n", "file-" \o file \o "\n"}

NoEnviron == [var \in EnvVars |-> None]
NoHome == [file \in DotFiles |-> None]

os_getenv(env, var) == env[var]

\* ai._read_single_line_file and config._read_single_line_file: the
\* stripped content of the file, None when the file is missing or unreadable
\* or the stripped content is empty
_read_single_line_file(content) ==
    IF content = None THEN None
    ELSE IF strip(content) # "" THEN strip(content) ELSE None

-----------------------------------------------------------------------------
(* config.Config *)

NoConfig ==
    [default_provider |-> None, gemini_model_name |-> None,
     openrouter_model_name |-> None]

\* the defaults of the fields
DefaultConfig ==
    [default_provider |-> "openrouter",
     gemini_model_name |-> "gemini-2.5-pro",
     openrouter_model_name |-> "deepseek/deepseek-chat-v3-0324:free"]

\* cls(): Config is a pydantic BaseSettings, so a field takes the value of
\* the environment variable of its name when that is set, as it is, and its
\* default otherwise
BaseSettings(env) ==
    [default_provider |->
        IF os_getenv(env, "DEFAULT_PROVIDER") # None
        THEN os_getenv(env, "DEFAULT_PROVIDER")
        ELSE DefaultConfig.default_provider,
     gemini_model_name |->
        IF os_getenv(env, "GEMINI_MODEL_NAME") # None
        THEN os_getenv(env, "GEMINI_MODEL_NAME")
        ELSE DefaultConfig.gemini_model_name,
     openrouter_model_name |->
        IF os_getenv(env, "OPENROUTER_MODEL_NAME") # None
        THEN os_getenv(env, "OPENROUTER_MODEL_NAME")
        ELSE DefaultConfig.openrouter_model_name]

\* lines 74-80 and 83-89 of config.py: one model name
load_model_name(current, env_value, content) ==
    IF Truthy(env_value) /\ Truthy(strip(env_value))
    THEN strip(env_value)
    ELSE LET file == _read_single_line_file(content)
         IN  IF Truthy(file) THEN file ELSE current

\* Config.load
Config_load(env, files) ==
    LET cfg == BaseSettings(env)
        env_provider == os_getenv(env, "DEFAULT_PROVIDER")
    IN  [default_provider |->
            IF Truthy(env_provider) THEN strip(env_provider) ELSE cfg.default_provider,
         openrouter_model_name |->
            load_model_name(cfg.openrouter_model_name,
                            os_getenv(env, "OPENROUTER_MODEL_NAME"),
                            files[".model-openrouter"]),
         gemini_model_name |->
            load_model_name(cfg.gemini_model_name,
                            os_getenv(env, "GEMINI_MODEL_NAME"),
                            files[".model-gemini"])]

-----------------------------------------------------------------------------
(* ai.py: credentials.  A resolution yields the key, the module globals    *)
(* that it leaves, and the variables and files that it read.               *)

\* the module globals after import
ImportedAi ==
    [_GEMINI_API_KEY |-> None, _CLIENT |-> None, _OPENROUTER_API_KEY |-> None]

\* the cache is not consulted
_resolve_openrouter_api_key_reread(cache, env, files) ==
    LET env_key == os_getenv(env, "OPENROUTER_API_KEY")
        file_key == _read_single_line_file(files[".api-openrouter"])
    IN  IF Truthy(env_key) /\ Truthy(strip(env_key))
        THEN [key |-> strip(env_key),
              cache |-> [cache EXCEPT !._OPENROUTER_API_KEY = strip(env_key)],
              reads |-> {"OPENROUTER_API_KEY"}]
        ELSE IF Truthy(file_key)
        THEN [key |-> file_key,
              cache |-> [cache EXCEPT !._OPENROUTER_API_KEY = file_key],
              reads |-> {"OPENROUTER_API_KEY", ".api-openrouter"}]
        ELSE [key |-> None, cache |-> cache,
              reads |-> {"OPENROUTER_API_KEY", ".api-openrouter"}]

_resolve_openrouter_api_key(cache, env, files) ==
    IF cache._OPENROUTER_API_KEY # None
    THEN [key |-> cache._OPENROUTER_API_KEY, cache |-> cache, reads |-> {}]
    ELSE LET env_key == os_getenv(env, "OPENROUTER_API_KEY")
             file_key == _read_single_line_file(files[".api-openrouter"])
         IN  IF Truthy(env_key) /\ Truthy(strip(env_key))
             THEN [key |-> strip(env_key),
                   cache |-> [cache EXCEPT !._OPENROUTER_API_KEY = strip(env_key)],
                   reads |-> {"OPENROUTER_API_KEY"}]
             ELSE IF Truthy(file_key)
             THEN [key |-> file_key,
                   cache |-> [cache EXCEPT !._OPENROUTER_API_KEY = file_key],
                   reads |-> {"OPENROUTER_API_KEY", ".api-openrouter"}]
             ELSE [key |-> None, cache |-> cache,
                   reads |-> {"OPENROUTER_API_KEY", ".api-openrouter"}]

_get_gemini_api_key(cache, env, files) ==
    IF cache._GEMINI_API_KEY # None
    THEN [key |-> cache._GEMINI_API_KEY, cache |-> cache, reads |-> {}]
    ELSE LET gemini == os_getenv(env, "GEMINI_API_KEY")
             env_key == PyOr(gemini, os_getenv(env, "GOOGLE_API_KEY"))
             env_reads == IF Truthy(gemini) THEN {"GEMINI_API_KEY"}
                          ELSE {"GEMINI_API_KEY", "GOOGLE_API_KEY"}
             file_key == _read_single_line_file(files[".api-gemini"])
         IN  IF Truthy(env_key) /\ Truthy(strip(env_key))
             THEN [key |-> strip(env_key),
                   cache |-> [cache EXCEPT !._GEMINI_API_KEY = strip(env_key)],
                   reads |-> env_reads]
             ELSE IF Truthy(file_key)
             THEN [key |-> file_key,
                   cache |-> [cache EXCEPT !._GEMINI_API_KEY = file_key],
                   reads |-> env_reads \cup {".api-gemini"}]
             ELSE [key |-> None, cache |-> cache,
                   reads |-> env_reads \cup {".api-gemini"}]

\* the client is the key that it was built with; construct_fails tells
\* whether genai.Client raises
_get_gemini_client(cache, env, files, construct_fails) ==
    IF cache._CLIENT # None
    THEN [client |-> cache._CLIENT, key |-> cache._CLIENT,
          cache |-> cache, reads |-> {}]
    ELSE LET k == _get_gemini_api_key(cache, env, files)
         IN  IF ~Truthy(k.key) \/ construct_fails
             THEN [client |-> None, key |-> k.key, cache |-> k.cache,
                   reads |-> k.reads]
             ELSE [client |-> k.key, key |-> k.key,
                   cache |-> [k.cache EXCEPT !._CLIENT = k.key],
                   reads |-> k.reads]

-----------------------------------------------------------------------------
(* ai.py: the provider requests.  What a provider does with a request is   *)
(* an input of the call.                                                   *)

\* requests.post: it raises (transport error, timeout), or returns a
\* response with a status code and a body that is JSON or not, with the
\* message contents of its choices (None for a missing content)
HttpResponse(raises, status_code, json, choices) ==
    [raises |-> raises, status_code |-> status_code, json |-> json,
     choices |-> choices]

\* client.models.generate_content: it raises, or returns a response with a
\* text (None when missing) and the texts of the parts of its candidates
GenaiResponse(raises, text, parts) ==
    [raises |-> raises, text |-> text, parts |-> parts]

OpenRouterOutcomes ==
    { [kind |-> "transport error", resp |-> HttpResponse(TRUE, 0, FALSE, << >>)],
      [kind |-> "non-200", resp |-> HttpResponse(FALSE, 500, TRUE, << >>)],
      [kind |-> "malformed body", resp |-> HttpResponse(FALSE, 200, FALSE, << >>)],
      [kind |-> "no choices", resp |-> HttpResponse(FALSE, 200, TRUE, << >>)],
      [kind |-> "missing text", resp |-> HttpResponse(FALSE, 200, TRUE, <<None>>)],
      [kind |-> "empty text", resp |-> HttpResponse(FALSE, 200, TRUE, <<" \n">>)],
      [kind |-> "text", resp |-> HttpResponse(FALSE, 200, TRUE, <<" hello ">>)] }

GeminiOutcomes ==
    { [kind |-> "client construction", construct_fails |-> TRUE,
       resp |-> GenaiResponse(FALSE, "hello", << >>)],
      [kind |-> "sdk exception", construct_fails |-> FALSE,
       resp |-> GenaiResponse(TRUE, None, << >>)],
      [kind |-> "missing text", construct_fails |-> FALSE,
       resp |-> GenaiResponse(FALSE, None, << >>)],
      [kind |-> "empty text", construct_fails |-> FALSE,
       resp |-> GenaiResponse(FALSE, "", <<None, "">>)],
      [kind |-> "part text", construct_fails |-> FALSE,
       resp |-> GenaiResponse(FALSE, None, <<None, "hello">>)],
      [kind |-> "text", construct_fails |-> FALSE,
       resp |-> GenaiResponse(FALSE, "hello", << >>)] }

\* lines 121-134 of ai.py, the body of the try: the text and the exception
\* that it raises
openrouter_post(resp) ==
    IF resp.raises
    THEN [text |-> None, error |-> "requests.RequestException"]
    ELSE IF resp.status_code # 200
    THEN [text |-> None, error |-> NoError]
    ELSE IF ~resp.json
    THEN [text |-> None, error |-> "requests.JSONDecodeError"]
    ELSE IF resp.choices = << >>
    THEN [text |-> None, error |-> NoError]
    ELSE LET content == strip(PyOr(resp.choices[1], ""))
         IN  [text |-> PyOr(content, None), error |-> NoError]

\* the try without its except clause
_openrouter_chat_uncaught(cache, env, files, resp) ==
    LET k == _resolve_openrouter_api_key(cache, env, files)
        post == openrouter_post(resp)
    IN  IF ~Truthy(k.key)
        THEN [text |-> None, raised |-> NoError, requests |-> << >>,
              key |-> k.key, cache |-> k.cache, reads |-> k.reads]
        ELSE [text |-> post.text, raised |-> post.error,
              requests |-> <<"openrouter">>,
              key |-> k.key, cache |-> k.cache, reads |-> k.reads]

_openrouter_chat(cache, env, files, resp) ==
    LET k == _resolve_openrouter_api_key(cache, env, files)
        post == openrouter_post(resp)
    IN  IF ~Truthy(k.key)
        THEN [text |-> None, raised |-> NoError, requests |-> << >>,
              key |-> k.key, cache |-> k.cache, reads |-> k.reads]
        ELSE [text |-> IF post.error # NoError THEN None ELSE post.text,
              raised |-> NoError,
              requests |-> <<"openrouter">>,
              key |-> k.key, cache |-> k.cache, reads |-> k.reads]

\* lines 176-183 of ai.py: the first part of the candidates with a text
RECURSIVE first_part_text(_)
first_part_text(parts) ==
    IF parts = << >> THEN None
    ELSE IF Truthy(Head(parts)) THEN Head(parts)
    ELSE first_part_text(Tail(parts))

\* lines 163-191 of ai.py: the text of the response, None when the call
\* raised or the response has none
gemini_generate_content(resp) ==
    IF resp.raises THEN None
    ELSE IF Truthy(resp.text) THEN resp.text
    ELSE first_part_text(resp.parts)

\* line 148 of ai.py
selected_provider(cfg) == strip(lower(PyOr(cfg.default_provider, "openrouter")))

\* the Gemini branch of generate_response
gemini_branch(cfg, cache, env, files, world) ==
    LET g == _get_gemini_client(cache, env, files, world.construct_fails)
    IN  IF g.client = None
        THEN [response |-> default_response, raised |-> NoError,
              requests |-> << >>, api_key |-> g.key, cache |-> g.cache,
              reads |-> g.reads]
        ELSE [response |-> generate_response(gemini_generate_content(world.gemini)),
              raised |-> NoError,
              requests |-> <<"gemini">>, api_key |-> g.key, cache |-> g.cache,
              reads |-> g.reads]

\* a failed OpenRouter request is followed by a Gemini request
generate_response_fallback(cfg, cache, env, files, world) ==
    LET o == _openrouter_chat(cache, env, files, world.openrouter)
        g == gemini_branch(cfg, o.cache, env, files, world)
    IN  IF selected_provider(cfg) # "openrouter"
        THEN gemini_branch(cfg, cache, env, files, world)
        ELSE IF Truthy(o.text)
        THEN [response |-> o.text, raised |-> o.raised,
              requests |-> o.requests, api_key |-> o.key, cache |-> o.cache,
              reads |-> o.reads]
        ELSE [g EXCEPT !.requests = o.requests \o g.requests,
                       !.api_key = o.key,
                       !.reads = o.reads \cup g.reads]

\* ai.generate_response as a call: the reply, the exception that escapes,
\* the provider requests sent, the credential used, the module globals left
\* and the variables and files read
generate_response_call(cfg, cache, env, files, world) ==
    IF selected_provider(cfg) = "openrouter"
    THEN LET o == _openrouter_chat(cache, env, files, world.openrouter)
         IN  [response |-> generate_response(o.text), raised |-> o.raised,
              requests |-> o.requests, api_key |-> o.key, cache |-> o.cache,
              reads |-> o.reads]
    ELSE gemini_branch(cfg, cache, env, files, world)

-----------------------------------------------------------------------------
(* Callers *)

\* rival: the call of the same tool by another caller that ran its write
\* statement on the key while this call was between its start and its own
\* write, with no write of another tool on the key since; found tells whether
\* the statement met a row, raised what it raised
NoRival ==
    [op |-> "", message |-> "", old_dialog |-> "", response |-> "",
     found |-> FALSE, raised |-> NoError]

BlankLocal ==
    [op |-> "", header |-> "", current_user |-> "", user_id |-> "", message |-> "",
     old_dialog |-> "", prompt_dialog |-> "", ai_response |-> "",
     provider_text |-> "", dialog |-> "",
     last_modified_datetime |-> "", last_modified_timestamp |-> 0,
     clean |-> TRUE, rival |-> NoRival, wiped |-> FALSE]

\* What the caller gets back (exists, user_count, dialog, dialog_list, response, datetime,
\* timestamp, users, loaded, raised), the arguments of the call, and a record
\* of what the call met: requests are the provider requests that it sent,
\* reads the environment variables and dotfiles that it read, api_key the
\* credential that it used, kind what the provider did, cached whether the
\* credential was cached when the call began; events are the calls made on
\* the database connection and fault what went wrong in the store; header is the current-user
\* header of the request ("" when db.py was called without a request);
\* pre are the rows of its key just before its transaction,
\* provider_text is what the provider produced, clean tells that no other
\* caller's write statement ran on the key between the call's start and its
\* write, rival is the last such statement, wiped tells that a reset of the
\* record completed between the call's start and its write.
BlankRet ==
    [op |-> "", header |-> "", current_user |-> "", user_id |-> "", message |-> "",
     new_dialog |-> "", old_dialog |-> "", provider_text |-> "", raised |-> NoError,
     exists |-> FALSE, user_count |-> 0, dialog |-> "", response |-> "",
     datetime |-> "", timestamp |-> 0, page |-> 0, users |-> << >>,
     requests |-> << >>, reads |-> {}, api_key |-> None, kind |-> "",
     cached |-> FALSE, loaded |-> NoConfig, events |-> << >>, fault |-> "",
     dialog_list |-> << >>,
     pre |-> {}, clean |-> TRUE, rival |-> NoRival, wiped |-> FALSE]

\* The database file outlives the server (create_tables is CREATE TABLE IF
\* NOT EXISTS): the server starts on an empty table or on the table that
\* earlier runs left.
InitialTables ==
    { {},
      { Row("alice", "u1",
            complete_dialog(prompt_dialog("", "hi"), "hello"), strftime(1), time_time(1)),
        Row(NoCurrentUser, "u1", "", strftime(1), time_time(1)) } }

Init ==
    /\ dialogs \in InitialTables
    /\ now = 1
    /\ pc = [c \in Callers |-> "idle"]
    /\ local = [c \in Callers |-> BlankLocal]
    /\ ret = BlankRet
    /\ calls = 0
    /\ deleted = {}
    /\ created = {<<r.current_user, r.user_id>> : r \in dialogs}
    /\ environ = NoEnviron
    /\ home = NoHome
    /\ ai = ImportedAi
    /\ config = DefaultConfig
    /\ session = NoSession

\* a caller may start a call
Begin(c) ==
    /\ pc[c] = "idle"
    /\ \A d \in Callers : Slot[d] < Slot[c] => pc[d] # "idle"
    /\ calls < MaxCalls
    /\ calls' = calls + 1

\* caller c ends its call, in which it ran a write statement on the key
\* (cu, uid): the calls in flight on the key are no longer clean
Finish(c, cu, uid, rival) ==
    /\ pc' = [pc EXCEPT ![c] = "idle"]
    /\ local' = [d \in Callers |->
                    IF d = c THEN BlankLocal
                    ELSE IF pc[d] # "idle"
                            /\ local[d].current_user = cu /\ local[d].user_id = uid
                         THEN [local[d] EXCEPT
                                 !.clean = FALSE,
                                 !.rival = IF rival.op = local[d].op THEN rival ELSE NoRival,
                                 !.wiped = local[d].wiped
                                             \/ (rival.op = "reset_dialog" /\ rival.found)]
                         ELSE local[d]]

Request(op, cu, uid) ==
    [BlankRet EXCEPT !.op = op, !.current_user = cu, !.user_id = uid,
                     !.pre = Matching(dialogs, cu, uid)]

Tick ==
    /\ now < MaxClock
    /\ now' = now + 1
    /\ UNCHANGED <<dialogs, pc, local, ret, calls, deleted, created, environ, home, ai, config, session>>

-----------------------------------------------------------------------------
(* Tools of api.py and functions of db.py that read the store: one         *)
(* transaction each.                                                       *)

check_user(c) ==
    \E rq \in Requests :
        LET cu == _get_current_user(rq[1])
            user_id == rq[2]
        IN  /\ Begin(c)
            /\ ret' = [Request("check_user", cu, user_id) EXCEPT
                         !.header = rq[1],
                         !.exists = is_user_id_in_db(dialogs, cu, user_id)]
            /\ UNCHANGED <<dialogs, now, pc, local, deleted, created, environ, home, ai, config, session>>

user_count(c) ==
    \E header \in Headers :
        LET cu == _get_current_user(header) IN
        /\ Begin(c)
        /\ ret' = [Request("user_count", cu, "") EXCEPT
                     !.header = header,
                     !.user_count = get_user_count(dialogs, cu)]
        /\ UNCHANGED <<dialogs, now, pc, local, deleted, created, environ, home, ai, config, session>>

get_dialog_str(c) ==
    \E rq \in Requests :
        LET cu == _get_current_user(rq[1])
            user_id == rq[2]
        IN  /\ Begin(c)
            /\ ret' = [Request("get_dialog_str", cu, user_id) EXCEPT
                         !.header = rq[1],
                         !.dialog = get_user_dialog(dialogs, cu, user_id)]
            /\ UNCHANGED <<dialogs, now, pc, local, deleted, created, environ, home, ai, config, session>>

get_dialog_json(c) ==
    \E rq \in Requests :
        LET cu == _get_current_user(rq[1])
            user_id == rq[2]
            dialog_str == get_user_dialog(dialogs, cu, user_id)
        IN  /\ Begin(c)
            /\ ret' = [Request("get_dialog_json", cu, user_id) EXCEPT
                         !.header = rq[1],
                         !.dialog = dialog_str,
                         !.dialog_list = dialog_to_json(dialog_str)]
            /\ UNCHANGED <<dialogs, now, pc, local, deleted, created, environ, home, ai, config, session>>

-----------------------------------------------------------------------------
(* create_user -> db.add_user_to_db: reads the clock, then inserts.        *)

create_user(c) ==
    \E rq \in Requests :
        /\ Begin(c)
        /\ local' = [local EXCEPT ![c] =
                       [BlankLocal EXCEPT
                          !.op = "create_user",
                          !.header = rq[1],
                          !.current_user = _get_current_user(rq[1]),
                          !.user_id = rq[2],
                          !.last_modified_datetime = strftime(now),
                          !.last_modified_timestamp = time_time(now)]]
        /\ pc' = [pc EXCEPT ![c] = "add_execute"]
        /\ UNCHANGED <<dialogs, now, ret, deleted, created, environ, home, ai, config, session>>

add_execute(c) ==
    /\ pc[c] = "add_execute"
    /\ LET l == local[c]
           txn == add_user_to_db(dialogs, l.current_user, l.user_id,
                                 l.last_modified_datetime, l.last_modified_timestamp)
       IN  /\ dialogs' = txn.table
           /\ ret' = [Request(l.op, l.current_user, l.user_id) EXCEPT
                        !.header = l.header,
                        !.raised = txn.raised,
                        !.clean = l.clean,
                        !.rival = l.rival]
           /\ Finish(c, l.current_user, l.user_id,
                     [NoRival EXCEPT !.op = l.op,
                                     !.found = Matching(dialogs, l.current_user, l.user_id) # {},
                                     !.raised = txn.raised])
           /\ created' = IF txn.raised = NoError
                         THEN created \cup {<<l.current_user, l.user_id>>}
                         ELSE created
    /\ UNCHANGED <<now, calls, deleted, environ, home, ai, config, session>>

-----------------------------------------------------------------------------
(* delete_user -> db.delete_user_from_db *)

delete_user(c) ==
    \E rq \in Requests :
        LET cu == _get_current_user(rq[1])
            user_id == rq[2]
            txn == delete_user_from_db(dialogs, cu, user_id)
        IN  /\ Begin(c)
            /\ dialogs' = txn.table
            /\ ret' = [Request("delete_user", cu, user_id) EXCEPT
                         !.header = rq[1],
                         !.raised = txn.raised]
            /\ deleted' = deleted \cup
                            {<<r.current_user, r.user_id, r.dialog # "">> :
                                r \in Matching(dialogs, cu, user_id)}
            /\ created' = created \ {<<r.current_user, r.user_id>> :
                                        r \in Matching(dialogs, cu, user_id)}
            /\ Finish(c, cu, user_id,
                      [NoRival EXCEPT !.op = "delete_user",
                                      !.found = Matching(dialogs, cu, user_id) # {},
                                      !.raised = txn.raised])
            /\ UNCHANGED <<now, environ, home, ai, config, session>>

-----------------------------------------------------------------------------
(* db.update_user_dialog: reads the clock, then updates.  It is called     *)
(* directly, by db.reset_user_chat (reset_dialog) and by chat.             *)

\* lines 88-89 of db.py: the two clock reads of update_user_dialog
enter_update_user_dialog(l, dialog) ==
    [l EXCEPT !.dialog = dialog,
              !.last_modified_datetime = strftime(now),
              !.last_modified_timestamp = time_time(now)]

write_transcript(c) ==
    \E k \in Keys, dialog \in WrittenDialogs :
        /\ Begin(c)
        /\ local' = [local EXCEPT ![c] =
                       enter_update_user_dialog(
                          [BlankLocal EXCEPT !.op = "update_user_dialog",
                                             !.current_user = k[1],
                                             !.user_id = k[2]],
                          dialog)]
        /\ pc' = [pc EXCEPT ![c] = "update_execute"]
        /\ UNCHANGED <<dialogs, now, ret, deleted, created, environ, home, ai, config, session>>

reset_dialog(c) ==
    \E rq \in Requests :
        /\ Begin(c)
        /\ local' = [local EXCEPT ![c] =
                       enter_update_user_dialog(
                          [BlankLocal EXCEPT !.op = "reset_dialog",
                                             !.header = rq[1],
                                             !.current_user = _get_current_user(rq[1]),
                                             !.user_id = rq[2]],
                          "")]
        /\ pc' = [pc EXCEPT ![c] = "update_execute"]
        /\ UNCHANGED <<dialogs, now, ret, deleted, created, environ, home, ai, config, session>>

update_execute(c) ==
    /\ pc[c] = "update_execute"
    /\ LET l == local[c]
           txn == update_user_dialog(dialogs, l.current_user, l.user_id, l.dialog,
                                     l.last_modified_datetime, l.last_modified_timestamp)
       IN  /\ dialogs' = txn.table
           /\ ret' = [Request(l.op, l.current_user, l.user_id) EXCEPT
                        !.header = l.header,
                        !.message = l.message,
                        !.old_dialog = l.old_dialog,
                        !.new_dialog = l.dialog,
                        !.response = l.ai_response,
                        !.provider_text = l.provider_text,
                        !.raised = txn.raised,
                        !.clean = l.clean,
                        !.rival = l.rival,
                        !.wiped = l.wiped]
           /\ Finish(c, l.current_user, l.user_id,
                     [op |-> l.op, message |-> l.message,
                      old_dialog |-> l.old_dialog, response |-> l.ai_response,
                      found |-> Matching(dialogs, l.current_user, l.user_id) # {},
                      raised |-> txn.raised])
    /\ UNCHANGED <<now, calls, deleted, created, environ, home, ai, config, session>>

-----------------------------------------------------------------------------
(* api.chat *)

\* steps 1 and 2: read the old dialog, build the prompt
chat(c) ==
    \E rq \in Requests, message \in Messages :
        LET cu == _get_current_user(rq[1])
            user_id == rq[2]
            old_dialog == get_old_dialog(dialogs, cu, user_id)
        IN  /\ Begin(c)
            /\ local' = [local EXCEPT ![c] =
                           [BlankLocal EXCEPT
                              !.op = "chat",
                              !.header = rq[1],
                              !.current_user = cu,
                              !.user_id = user_id,
                              !.message = message,
                              !.old_dialog = old_dialog,
                              !.prompt_dialog = prompt_dialog(old_dialog, message)]]
            /\ pc' = [pc EXCEPT ![c] = "generate"]
            /\ UNCHANGED <<dialogs, now, ret, deleted, created, environ, home, ai, config, session>>

\* steps 3 to 5: the provider call (text is what the provider produced), the
\* complete dialog, and the entry into update_user_dialog
chat_generate(c) ==
    /\ pc[c] = "generate"
    /\ \E text \in ProviderTexts \cup {None} :
          LET ai_response == generate_response(text) IN
          local' = [local EXCEPT ![c] =
                      enter_update_user_dialog(
                         [local[c] EXCEPT !.ai_response = ai_response,
                                          !.provider_text = text],
                         complete_dialog(local[c].prompt_dialog, ai_response))]
    /\ pc' = [pc EXCEPT ![c] = "update_execute"]
    /\ UNCHANGED <<dialogs, now, ret, calls, deleted, created, environ, home, ai, config, session>>

-----------------------------------------------------------------------------

Next ==
    \/ Tick
    \/ \E c \in Callers :
          \/ check_user(c)
          \/ user_count(c)
          \/ get_dialog_str(c)
          \/ get_dialog_json(c)
          \/ create_user(c)
          \/ add_execute(c)
          \/ delete_user(c)
          \/ write_transcript(c)
          \/ reset_dialog(c)
          \/ update_execute(c)
          \/ chat(c)
          \/ chat_generate(c)

Spec == Init /\ [][Next]_vars

-----------------------------------------------------------------------------
(* Paging: db.get_all_users_paged on the tables that the tests of the      *)
(* store fill (test_get_all_users_paged adds 150 users of one owner).      *)

\* the row counts of the populated owner: around the page boundaries
RowCounts ==
    {0, 1, PageSize - 1, PageSize, PageSize + 1, 150, 2 * PageSize, MaxRows}

\* users added within one second, or in turn in two seconds
Stampings == {"same second", "alternating"}

StampOf(i, stamping) == IF stamping = "same second" THEN 1 ELSE 1 + (i % 2)

\* n users of owner alice, and two users of the owner of header-less
\* requests, one of them with a user id that alice has too
PagedTable(n, stamping) ==
    {Row("alice", TestUser(i), "",
         strftime(StampOf(i, stamping)), time_time(StampOf(i, stamping))) :
        i \in 0..(n - 1)}
    \cup {Row(NoCurrentUser, "u1", "", strftime(1), time_time(1)),
          Row(NoCurrentUser, TestUser(0), "", strftime(2), time_time(2))}

InitPage ==
    /\ \E n \in RowCounts, stamping \in Stampings :
          dialogs = PagedTable(n, stamping)
    /\ now = 2
    /\ pc = [c \in Callers |-> "idle"]
    /\ local = [c \in Callers |-> BlankLocal]
    /\ ret = BlankRet
    /\ calls = 0
    /\ deleted = {}
    /\ created = {<<r.current_user, r.user_id>> : r \in dialogs}
    /\ environ = NoEnviron
    /\ home = NoHome
    /\ ai = ImportedAi
    /\ config = DefaultConfig
    /\ session = NoSession

list_page(c) ==
    \E cu \in CurrentUsers, page \in 0..MaxPage, tie \in TieOrders :
        /\ Begin(c)
        /\ ret' = [BlankRet EXCEPT
                     !.op = "get_all_users_paged",
                     !.current_user = cu,
                     !.page = page,
                     !.users = get_all_users_paged(dialogs, cu, page, tie)]
        /\ UNCHANGED <<dialogs, now, pc, local, deleted, created, environ, home, ai, config, session>>

NextPage == \E c \in Callers : list_page(c)

SpecPage == InitPage /\ [][NextPage]_vars

-----------------------------------------------------------------------------
(* The provider call of chat (api.py line 129) in a process whose          *)
(* environment and dotfiles change while it runs.                          *)

\* the values of default_provider of the loaded configurations
Providers == {"openrouter", "gemini", " OpenRouter "}

\* what the providers do with the requests of one call: the outcomes of the
\* selected provider, beside a provider not selected that would answer
Worlds(cfg, cache) ==
    IF selected_provider(cfg) = "openrouter"
    THEN {[kind |-> o.kind, openrouter |-> o.resp, construct_fails |-> FALSE,
           gemini |-> GenaiResponse(FALSE, "hello from gemini", << >>)] :
             o \in OpenRouterOutcomes}
    ELSE {[kind |-> g.kind, openrouter |-> HttpResponse(FALSE, 200, TRUE, <<"hello from openrouter">>),
           construct_fails |-> g.construct_fails, gemini |-> g.resp] :
             g \in {h \in GeminiOutcomes :
                       cache._CLIENT # None => h.kind # "client construction"}}

\* the credential that the cache holds for the selected provider
CachedKey(cfg, cache) ==
    IF selected_provider(cfg) = "openrouter" THEN cache._OPENROUTER_API_KEY
    ELSE PyOr(cache._CLIENT, cache._GEMINI_API_KEY)

InitAI ==
    /\ dialogs = {}
    /\ now = 1
    /\ pc = [c \in Callers |-> "idle"]
    /\ local = [c \in Callers |-> BlankLocal]
    /\ ret = BlankRet
    /\ calls = 0
    /\ deleted = {}
    /\ created = {}
    /\ \E keys \in [KeyVars -> UNION {EnvValues(var) : var \in KeyVars}] :
          /\ \A var \in KeyVars : keys[var] \in EnvValues(var)
          /\ environ = [var \in EnvVars |-> IF var \in KeyVars THEN keys[var] ELSE None]
    /\ \E files \in [KeyFiles -> UNION {FileContents(file) : file \in KeyFiles}] :
          /\ \A file \in KeyFiles : files[file] \in FileContents(file)
          /\ home = [file \in DotFiles |-> IF file \in KeyFiles THEN files[file] ELSE None]
    /\ ai = ImportedAi
    /\ session = NoSession
    /\ \E provider \in Providers :
          config = [DefaultConfig EXCEPT !.default_provider = provider]

call_generate_response(c) ==
    \E world \in Worlds(config, ai) :
        LET g == generate_response_call(config, ai, environ, home, world) IN
        /\ Begin(c)
        /\ ai' = g.cache
        /\ ret' = [BlankRet EXCEPT
                     !.op = "generate_response",
                     !.response = g.response,
                     !.raised = g.raised,
                     !.requests = g.requests,
                     !.reads = g.reads,
                     !.api_key = g.api_key,
                     !.kind = world.kind,
                     !.cached = CachedKey(config, ai) # None]
        /\ UNCHANGED <<dialogs, now, pc, local, deleted, created, environ, home, config, session>>

\* the environment of the process changes
setenv ==
    \E var \in KeyVars : \E value \in EnvValues(var) :
        /\ value # environ[var]
        /\ environ' = [environ EXCEPT ![var] = value]
        /\ UNCHANGED <<dialogs, now, pc, local, ret, calls, deleted, created,
                       home, ai, config, session>>

\* a dotfile is written or removed
write_dotfile ==
    \E file \in KeyFiles : \E content \in FileContents(file) :
        /\ content # home[file]
        /\ home' = [home EXCEPT ![file] = content]
        /\ UNCHANGED <<dialogs, now, pc, local, ret, calls, deleted, created,
                       environ, ai, config, session>>

NextAI ==
    \/ \E c \in Callers : call_generate_response(c)
    \/ setenv
    \/ write_dotfile

SpecAI == InitAI /\ [][NextAI]_vars

-----------------------------------------------------------------------------
(* generate_response under every kind of default_provider: the two names,  *)
(* in other cases and padded, an empty and a blank value, and a name that  *)
(* no provider has.                                                        *)

ProviderNames == Providers \cup {"", "  ", "GEMINI", "claude"}

InitProvider ==
    /\ dialogs = {}
    /\ now = 1
    /\ pc = [c \in Callers |-> "idle"]
    /\ local = [c \in Callers |-> BlankLocal]
    /\ ret = BlankRet
    /\ calls = 0
    /\ deleted = {}
    /\ created = {}
    /\ \E keys \in [KeyVars -> UNION {EnvValues(var) : var \in KeyVars}] :
          /\ \A var \in KeyVars : keys[var] \in EnvValues(var)
          /\ environ = [var \in EnvVars |-> IF var \in KeyVars THEN keys[var] ELSE None]
    /\ \E files \in [KeyFiles -> UNION {FileContents(file) : file \in KeyFiles}] :
          /\ \A file \in KeyFiles : files[file] \in FileContents(file)
          /\ home = [file \in DotFiles |-> IF file \in KeyFiles THEN files[file] ELSE None]
    /\ ai = ImportedAi
    /\ session = NoSession
    /\ \E provider \in ProviderNames :
          config = [DefaultConfig EXCEPT !.default_provider = provider]

NextProvider == \E c \in Callers : call_generate_response(c)

SpecProvider == InitProvider /\ [][NextProvider]_vars

-----------------------------------------------------------------------------
(* Sequential calls of create_user, chat and get_dialog_json: each call    *)
(* runs to its end before the next starts.                                 *)

\* the requests of the calls: one user id under two owners
SessionRequests == {rq \in Requests : rq[2] = "u1"}

\* the messages of the chats: plain, with the words of a turn inside, and
\* with a double quote
SessionMessages == Messages \cup {"a said: b", "q\"q"}

Chats == Len(session[<<"alice", "u1">>].turns) + Len(session[<<"alice", "u2">>].turns)
             + Len(session[<<NoCurrentUser, "u1">>].turns)

\* api.create_user (lines 53-59) with db.add_user_to_db
session_create_user(c) ==
    \E rq \in SessionRequests :
        LET cu == _get_current_user(rq[1])
            user_id == rq[2]
            txn == add_user_to_db(dialogs, cu, user_id, strftime(now), time_time(now))
        IN  /\ pc[c] = "idle"
            /\ dialogs' = txn.table
            /\ ret' = [Request("create_user", cu, user_id) EXCEPT
                         !.header = rq[1],
                         !.raised = txn.raised]
            /\ session' = [session EXCEPT ![<<cu, user_id>>] =
                              IF txn.raised = NoError
                              THEN [open |-> TRUE, turns |-> << >>]
                              ELSE [@ EXCEPT !.open = FALSE]]
            /\ created' = IF txn.raised = NoError
                          THEN created \cup {<<cu, user_id>>}
                          ELSE created
            /\ UNCHANGED <<now, pc, local, calls, deleted, environ, home, ai, config>>

\* api.chat (lines 116-139) from its first step to its last
session_chat(c) ==
    \E rq \in SessionRequests, message \in SessionMessages, text \in ProviderTexts \cup {None} :
        LET cu == _get_current_user(rq[1])
            user_id == rq[2]
            old_dialog == get_old_dialog(dialogs, cu, user_id)
            prompt == prompt_dialog(old_dialog, message)
            ai_response == generate_response(text)
            complete == complete_dialog(prompt, ai_response)
            txn == update_user_dialog(dialogs, cu, user_id, complete,
                                      strftime(now), time_time(now))
        IN  /\ pc[c] = "idle"
            /\ Chats < MaxChats
            /\ dialogs' = txn.table
            /\ ret' = [Request("chat", cu, user_id) EXCEPT
                         !.header = rq[1],
                         !.message = message,
                         !.old_dialog = old_dialog,
                         !.new_dialog = complete,
                         !.response = ai_response,
                         !.provider_text = text,
                         !.raised = txn.raised]
            /\ session' = [session EXCEPT ![<<cu, user_id>>] =
                              IF Matching(dialogs, cu, user_id) # {}
                              THEN [@ EXCEPT !.turns =
                                      Append(@, [message |-> message,
                                                 response |-> ai_response])]
                              ELSE @]
            /\ UNCHANGED <<now, pc, local, calls, deleted, created, environ, home, ai, config>>

\* api.get_dialog_json (lines 98-104)
session_get_dialog_json(c) ==
    \E rq \in SessionRequests :
        LET cu == _get_current_user(rq[1])
            user_id == rq[2]
            dialog_str == get_user_dialog(dialogs, cu, user_id)
        IN  /\ pc[c] = "idle"
            /\ ret' = [Request("get_dialog_json", cu, user_id) EXCEPT
                         !.header = rq[1],
                         !.dialog = dialog_str,
                         !.dialog_list = dialog_to_json(dialog_str)]
            /\ UNCHANGED <<dialogs, now, pc, local, calls, deleted, created,
                           environ, home, ai, config, session>>

\* the server starts on an empty table
InitSession ==
    /\ dialogs = {}
    /\ now = 1
    /\ pc = [c \in Callers |-> "idle"]
    /\ local = [c \in Callers |-> BlankLocal]
    /\ ret = BlankRet
    /\ calls = 0
    /\ deleted = {}
    /\ created = {}
    /\ environ = NoEnviron
    /\ home = NoHome
    /\ ai = ImportedAi
    /\ config = DefaultConfig
    /\ session = NoSession

NextSession ==
    \E c \in {"c1"} :
        \/ session_create_user(c)
        \/ session_chat(c)
        \/ session_get_dialog_json(c)

SpecSession == InitSession /\ [][NextSession]_vars

-----------------------------------------------------------------------------
(* Config.load at the start of a process *)

InitConfig ==
    /\ dialogs = {}
    /\ now = 1
    /\ pc = [c \in Callers |-> "idle"]
    /\ local = [c \in Callers |-> BlankLocal]
    /\ ret = BlankRet
    /\ calls = 0
    /\ deleted = {}
    /\ created = {}
    /\ \E values \in [ConfigVars -> UNION {EnvValues(var) : var \in ConfigVars}] :
          /\ \A var \in ConfigVars : values[var] \in EnvValues(var)
          /\ environ = [var \in EnvVars |-> IF var \in ConfigVars THEN values[var] ELSE None]
    /\ \E files \in [ModelFiles -> UNION {FileContents(file) : file \in ModelFiles}] :
          /\ \A file \in ModelFiles : files[file] \in FileContents(file)
          /\ home = [file \in DotFiles |-> IF file \in ModelFiles THEN files[file] ELSE None]
    /\ ai = ImportedAi
    /\ config = NoConfig
    /\ session = NoSession

load(c) ==
    /\ Begin(c)
    /\ config' = Config_load(environ, home)
    /\ ret' = [BlankRet EXCEPT !.op = "Config.load",
                               !.loaded = Config_load(environ, home)]
    /\ UNCHANGED <<dialogs, now, pc, local, deleted, created, environ, home, ai, session>>

NextConfig == \E c \in Callers : load(c)

SpecConfig == InitConfig /\ [][NextConfig]_vars

-----------------------------------------------------------------------------
(* The functions of db.py on a store that can fail: each call opens one     *)
(* connection with get_db_connection and runs one statement in it.         *)

\* a SELECT: it changes no row
sql_select(tbl) == [table |-> tbl, error |-> NoError]

ReadFunctions ==
    {"get_old_dialog", "is_user_id_in_db", "get_user_count",
     "get_user_last_modified_timestamp"}

InitStore ==
    /\ dialogs \in InitialTables
    /\ now = 1
    /\ pc = [c \in Callers |-> "idle"]
    /\ local = [c \in Callers |-> BlankLocal]
    /\ ret = BlankRet
    /\ calls = 0
    /\ deleted = {}
    /\ created = {<<r.current_user, r.user_id>> : r \in dialogs}
    /\ environ = NoEnviron
    /\ home = NoHome
    /\ ai = ImportedAi
    /\ config = DefaultConfig
    /\ session = NoSession

\* the outcome of a db.py call on key k whose connection did txn
StoreRet(fn, k, txn, fault) ==
    [Request(fn, k[1], k[2]) EXCEPT
        !.raised = txn.raised, !.events = txn.events, !.fault = fault]

store_read(c) ==
    \E fn \in ReadFunctions, k \in Keys, fault \in Faults :
        LET txn == get_db_connection(dialogs, sql_select(dialogs), fault)
            done == StoreRet(fn, k, txn, fault)
        IN  /\ Begin(c)
            /\ dialogs' = txn.table
            /\ ret' = IF txn.raised # NoError THEN done
                      ELSE [done EXCEPT
                              !.dialog = get_old_dialog(dialogs, k[1], k[2]),
                              !.exists = is_user_id_in_db(dialogs, k[1], k[2]),
                              !.user_count = get_user_count(dialogs, k[1]),
                              !.timestamp =
                                  get_user_last_modified_timestamp(dialogs, k[1], k[2])]
            /\ UNCHANGED <<now, pc, local, deleted, created, environ, home, ai, config, session>>

store_add(c) ==
    \E k \in Keys, fault \in Faults :
        LET txn == get_db_connection(
                      dialogs,
                      sql_insert(dialogs, Row(k[1], k[2], "", strftime(now), time_time(now))),
                      fault)
        IN  /\ Begin(c)
            /\ dialogs' = txn.table
            /\ ret' = StoreRet("add_user_to_db", k, txn, fault)
            /\ created' = IF txn.raised = NoError THEN created \cup {k} ELSE created
            /\ UNCHANGED <<now, pc, local, deleted, environ, home, ai, config, session>>

store_update(c) ==
    \E k \in Keys, dialog \in WrittenDialogs \cup {""}, fault \in Faults :
        LET txn == get_db_connection(
                      dialogs,
                      sql_update(dialogs, k[1], k[2], dialog, strftime(now), time_time(now)),
                      fault)
        IN  /\ Begin(c)
            /\ dialogs' = txn.table
            /\ ret' = [StoreRet("update_user_dialog", k, txn, fault) EXCEPT
                         !.new_dialog = dialog]
            /\ UNCHANGED <<now, pc, local, deleted, created, environ, home, ai, config, session>>

store_delete(c) ==
    \E k \in Keys, fault \in Faults :
        LET txn == get_db_connection(dialogs, sql_delete(dialogs, k[1], k[2]), fault)
            gone == dialogs \ txn.table
        IN  /\ Begin(c)
            /\ dialogs' = txn.table
            /\ ret' = StoreRet("delete_user_from_db", k, txn, fault)
            /\ deleted' = deleted \cup
                            {<<r.current_user, r.user_id, r.dialog # "">> : r \in gone}
            /\ created' = created \ {<<r.current_user, r.user_id>> : r \in gone}
            /\ UNCHANGED <<now, pc, local, environ, home, ai, config, session>>

NextStore ==
    \/ Tick
    \/ \E c \in Callers :
          \/ store_read(c)
          \/ store_add(c)
          \/ store_update(c)
          \/ store_delete(c)

SpecStore == InitStore /\ [][NextStore]_vars

-----------------------------------------------------------------------------
(* get_dialog_json on the transcripts that json_to_dialog writes           *)

\* names: the two speakers of chat, no name, a name that ends in the word of
\* the pattern, a name with a double quote
Names == {"User", "Waifu", "", "Bob said", "a\"b"}
\* messages: also the empty one and one with a colon
Texts == {"hi", "", "a: b"}

TurnSeqs == UNION {[1..n -> Names \X Texts] : n \in 0..MaxTurns}

Transcript == [turns \in TurnSeqs |-> json_to_dialog(turns)]

InitJson ==
    /\ \E turns \in TurnSeqs :
          dialogs = {Row("alice", "u1", Transcript[turns], strftime(1), time_time(1)),
                     Row(NoCurrentUser, "u1", "", strftime(1), time_time(1))}
    /\ now = 1
    /\ pc = [c \in Callers |-> "idle"]
    /\ local = [c \in Callers |-> BlankLocal]
    /\ ret = BlankRet
    /\ calls = 0
    /\ deleted = {}
    /\ created = {<<r.current_user, r.user_id>> : r \in dialogs}
    /\ environ = NoEnviron
    /\ home = NoHome
    /\ ai = ImportedAi
    /\ config = DefaultConfig
    /\ session = NoSession

NextJson == \E c \in Callers : get_dialog_json(c)

SpecJson == InitJson /\ [][NextJson]_vars

-----------------------------------------------------------------------------
(* Every operation on the store: the tools of api.py and the functions of  *)
(* db.py that no tool calls, on a store whose records were last modified   *)
(* a second ago.                                                           *)

InitFrame ==
    /\ dialogs \in InitialTables
    /\ now = 2
    /\ pc = [c \in Callers |-> "idle"]
    /\ local = [c \in Callers |-> BlankLocal]
    /\ ret = BlankRet
    /\ calls = 0
    /\ deleted = {}
    /\ created = {<<r.current_user, r.user_id>> : r \in dialogs}
    /\ environ = NoEnviron
    /\ home = NoHome
    /\ ai = ImportedAi
    /\ config = DefaultConfig
    /\ session = NoSession

\* db.get_user_last_modified_datetime and db.get_user_last_modified_timestamp
last_modified(c) ==
    \E k \in Keys :
        /\ Begin(c)
        /\ ret' = [Request("get_user_last_modified", k[1], k[2]) EXCEPT
                     !.datetime = get_user_last_modified_datetime(dialogs, k[1], k[2]),
                     !.timestamp = get_user_last_modified_timestamp(dialogs, k[1], k[2])]
        /\ UNCHANGED <<dialogs, now, pc, local, deleted, created, environ, home, ai, config, session>>

NextFrame ==
    \E c \in Callers :
        \/ check_user(c)
        \/ user_count(c)
        \/ get_dialog_str(c)
        \/ get_dialog_json(c)
        \/ list_page(c)
        \/ last_modified(c)
        \/ create_user(c)
        \/ add_execute(c)
        \/ delete_user(c)
        \/ write_transcript(c)
        \/ reset_dialog(c)
        \/ update_execute(c)
        \/ chat(c)
        \/ chat_generate(c)

SpecFrame == InitFrame /\ [][NextFrame]_vars

-----------------------------------------------------------------------------
(* Properties *)

\* one turn of a chat as it is appended to a transcript
Turn(message, reply) ==
    " User said: \"" \o message \o "\" Waifu said: \"" \o reply \o "\""

\* the transcripts stored under a key: none, or one per row
Stored(cu, uid) == {r.dialog : r \in Matching(dialogs, cu, uid)}

\* the transcripts that the last completed call found under its key
Prior == {r.dialog : r \in ret.pre}

\* the reply that a chat owes for what the provider produced
Reply(text) == IF text = None THEN default_response ELSE text

\* C1: a chat on an existing record, with no other write on the record
\* between its read and its write, leaves the prior transcript followed by
\* ' User said: "<message>" Waifu said: "<reply>"' and returns that reply,
\* which is the provider text or the fallback string.
C1_ChatAppendsTurn ==
    (ret.op = "chat" /\ ret.pre # {} /\ ret.clean) =>
        /\ ret.raised = NoError
        /\ ret.response = Reply(ret.provider_text)
        /\ Stored(ret.current_user, ret.user_id) =
              {prior \o Turn(ret.message, ret.response) : prior \in Prior}

C1_Witness ==
    /\ ret.op = "chat" /\ ret.pre # {} /\ ret.clean
    /\ "" \notin Prior
    /\ ret.response = default_response
    /\ Stored(ret.current_user, ret.user_id) # {}

\* C2: when two chats on one existing record both read the same prior
\* transcript and both write, the store holds the dialog of the chat that
\* wrote last (the prior transcript and that chat's turn only), not a merge,
\* although the other chat returned a response.
C2_LastWriterWins ==
    (/\ ret.op = "chat" /\ ret.pre # {}
     /\ ret.rival.op = "chat" /\ ret.rival.found
     /\ ret.rival.old_dialog = ret.old_dialog) =>
        LET mine == Turn(ret.message, ret.response)
            theirs == Turn(ret.rival.message, ret.rival.response)
            stored == Stored(ret.current_user, ret.user_id)
        IN  /\ stored = {ret.old_dialog \o mine}
            /\ ret.old_dialog \o theirs \o mine \notin stored
            /\ ret.old_dialog \o mine \o theirs \notin stored
            /\ theirs # mine => ret.old_dialog \o theirs \notin stored
            /\ ret.rival.response \in ProviderTexts \cup {default_response}
            /\ ret.rival.raised = NoError

C2_Witness ==
    /\ ret.op = "chat" /\ ret.pre # {}
    /\ ret.rival.op = "chat" /\ ret.rival.found
    /\ ret.rival.old_dialog = ret.old_dialog
    /\ ret.old_dialog # ""
    /\ ret.rival.response # ret.response
    /\ Prior = {ret.old_dialog \o Turn(ret.rival.message, ret.rival.response)}
    /\ Stored(ret.current_user, ret.user_id) =
          {ret.old_dialog \o Turn(ret.message, ret.response)}

\* C3: update_user_dialog(owner, user, X) on an existing record, then
\* get_old_dialog(owner, user), returns exactly X whatever the transcript was
\* before, X itself included.
C3_WriteReadRoundTrip ==
    (ret.op = "update_user_dialog" /\ ret.pre # {}) =>
        get_old_dialog(dialogs, ret.current_user, ret.user_id) = ret.new_dialog

C3_Witness ==
    /\ ret.op = "update_user_dialog"
    /\ Prior = {ret.new_dialog}
    /\ ret.new_dialog # ""
    /\ get_old_dialog(dialogs, ret.current_user, ret.user_id) = ret.new_dialog

\* C4: update_user_dialog on a pair without a record raises nothing, leaves
\* the table as it was (no record, the same count for the owner), and the
\* read that follows returns "".
C4_WriteOnAbsentIsNoOp ==
    [][\A c \in Callers :
          (/\ update_execute(c)
           /\ local[c].op = "update_user_dialog"
           /\ Matching(dialogs, local[c].current_user, local[c].user_id) = {}) =>
              /\ ret'.raised = NoError
              /\ dialogs' = dialogs
              /\ ~is_user_id_in_db(dialogs', local[c].current_user, local[c].user_id)
              /\ get_user_count(dialogs', local[c].current_user)
                    = get_user_count(dialogs, local[c].current_user)
              /\ get_old_dialog(dialogs', local[c].current_user, local[c].user_id) = ""
      ]_vars

C4_Witness ==
    /\ ret.op = "update_user_dialog" /\ ret.pre = {}
    /\ ret.new_dialog # ""
    /\ ret.raised = NoError
    /\ ~is_user_id_in_db(dialogs, ret.current_user, ret.user_id)
    /\ get_user_count(dialogs, ret.current_user) > 0

\* C5: a chat that finds no record at its write returns its reply without an
\* error and creates no record: exists is false and the read returns "".
C5_ChatNeverCreates ==
    (ret.op = "chat" /\ ret.pre = {}) =>
        /\ ret.raised = NoError
        /\ ret.response = Reply(ret.provider_text)
        /\ ret.response # ""
        /\ ~is_user_id_in_db(dialogs, ret.current_user, ret.user_id)
        /\ get_old_dialog(dialogs, ret.current_user, ret.user_id) = ""

\* the record was deleted between the read and the write of the chat
C5_Witness ==
    /\ ret.op = "chat" /\ ret.pre = {}
    /\ ret.old_dialog # ""
    /\ ~ret.clean
    /\ <<ret.current_user, ret.user_id, TRUE>> \in deleted
    /\ ~is_user_id_in_db(dialogs, ret.current_user, ret.user_id)

\* C6: for a pair without a record, never created or deleted, exists is
\* false, the transcript read is "", the last-modified datetime is "" and the
\* timestamp 0, and check_user and get_dialog_str return these without error.
C6_AbsentReadsDefault ==
    /\ \A k \in Keys :
          Matching(dialogs, k[1], k[2]) = {} =>
              /\ ~is_user_id_in_db(dialogs, k[1], k[2])
              /\ get_old_dialog(dialogs, k[1], k[2]) = ""
              /\ get_user_dialog(dialogs, k[1], k[2]) = ""
              /\ get_user_last_modified_datetime(dialogs, k[1], k[2]) = ""
              /\ get_user_last_modified_timestamp(dialogs, k[1], k[2]) = 0
    /\ (ret.op = "check_user" /\ ret.pre = {}) =>
          (~ret.exists /\ ret.raised = NoError)
    /\ (ret.op = "get_dialog_str" /\ ret.pre = {}) =>
          (ret.dialog = "" /\ ret.raised = NoError)

\* a read of a pair that was created, written and then deleted
C6_Witness ==
    /\ ret.op = "get_dialog_str" /\ ret.pre = {}
    /\ <<ret.current_user, ret.user_id, TRUE>> \in deleted
    /\ ret.dialog = ""
    /\ get_user_last_modified_timestamp(dialogs, ret.current_user, ret.user_id) = 0

\* C7: after a create that succeeded, whatever came before (a delete of the
\* same pair with a non-empty transcript included), exists is true and the
\* transcript read is "".
C7_CreateGivesEmptyRecord ==
    (ret.op = "create_user" /\ ret.raised = NoError) =>
        /\ ret.pre = {}
        /\ is_user_id_in_db(dialogs, ret.current_user, ret.user_id)
        /\ get_old_dialog(dialogs, ret.current_user, ret.user_id) = ""

C7_Witness ==
    /\ ret.op = "create_user" /\ ret.raised = NoError
    /\ <<ret.current_user, ret.user_id, TRUE>> \in deleted
    /\ is_user_id_in_db(dialogs, ret.current_user, ret.user_id)

\* C8: a create on a pair that has a record raises the duplicate-key error to
\* the caller and leaves the table, the record's transcript and timestamps
\* included, as it was.
C8_DuplicateCreateFails ==
    [][\A c \in Callers :
          (/\ add_execute(c)
           /\ Matching(dialogs, local[c].current_user, local[c].user_id) # {}) =>
              /\ ret'.raised = IntegrityError
              /\ dialogs' = dialogs
              /\ get_user_count(dialogs', local[c].current_user)
                    = get_user_count(dialogs, local[c].current_user)
      ]_vars

C8_Witness ==
    /\ ret.op = "create_user" /\ ret.raised = IntegrityError
    /\ "" \notin Prior
    /\ Matching(dialogs, ret.current_user, ret.user_id) = ret.pre
    /\ \E r \in ret.pre : r.last_modified_timestamp < now

\* C9: the table holds at most one row per (current_user, user_id); a create
\* succeeds exactly when the pair had no row, so of two creates that race for
\* an absent pair the first to insert succeeds and the other fails.
C9_OneRecordPerKey ==
    /\ \A r1, r2 \in dialogs :
          (r1.current_user = r2.current_user /\ r1.user_id = r2.user_id) => r1 = r2
    /\ ret.op = "create_user" =>
          /\ (ret.raised = NoError) = (ret.pre = {})
          /\ (ret.raised = IntegrityError) = (ret.pre # {})
          /\ (ret.rival.op = "create_user" /\ ret.rival.raised = NoError) =>
                ret.raised = IntegrityError

\* two creates in flight for an absent pair: the rival inserted first
C9_Witness ==
    /\ ret.op = "create_user"
    /\ ret.rival.op = "create_user" /\ ~ret.rival.found /\ ret.rival.raised = NoError
    /\ ret.raised = IntegrityError
    /\ Cardinality(Matching(dialogs, ret.current_user, ret.user_id)) = 1

\* C10: after a delete exists is false, and a delete on a pair without a
\* record (a second delete in a row included) raises nothing and leaves the
\* table as it was.
C10_DeleteThenAbsent ==
    [][\A c \in Callers :
          delete_user(c) =>
              /\ ~is_user_id_in_db(dialogs', ret'.current_user, ret'.user_id)
              /\ ret'.raised = NoError
              /\ ret'.pre = {} => dialogs' = dialogs
      ]_vars

\* the second delete in a row, on a table that holds other records
C10_Witness ==
    /\ ret.op = "delete_user" /\ ret.pre = {}
    /\ \E t \in BOOLEAN : <<ret.current_user, ret.user_id, t>> \in deleted
    /\ dialogs # {}
    /\ ~is_user_id_in_db(dialogs, ret.current_user, ret.user_id)

\* C11: reset_dialog has the effect of update_user_dialog with the dialog
\* "": on a pair that has a record the transcript becomes "" and both
\* timestamps take the clock reading of the call, the record stays (exists
\* true, count unchanged, no other row touched); on a pair without a record
\* the table stays as it was and nothing is raised.
C11_ResetIsWriteOfEmpty ==
    [][\A c \in Callers :
          (update_execute(c) /\ local[c].op = "reset_dialog") =>
              LET l == local[c]
                  cu == l.current_user
                  uid == l.user_id
                  pre == Matching(dialogs, cu, uid)
              IN  /\ ret'.raised = NoError
                  /\ dialogs' = update_user_dialog(dialogs, cu, uid, "",
                                    l.last_modified_datetime,
                                    l.last_modified_timestamp).table
                  /\ get_user_count(dialogs', cu) = get_user_count(dialogs, cu)
                  /\ is_user_id_in_db(dialogs', cu, uid) = (pre # {})
                  /\ pre = {} => dialogs' = dialogs
                  /\ pre # {} =>
                        /\ dialogs' \ Matching(dialogs', cu, uid) = dialogs \ pre
                        /\ get_old_dialog(dialogs', cu, uid) = ""
                        /\ get_user_last_modified_datetime(dialogs', cu, uid)
                              = l.last_modified_datetime
                        /\ get_user_last_modified_timestamp(dialogs', cu, uid)
                              = l.last_modified_timestamp
                        /\ \E t1, t2 \in 1..now :
                              /\ l.last_modified_datetime = strftime(t1)
                              /\ l.last_modified_timestamp = time_time(t2)
      ]_vars

\* a reset of a record with a transcript, in a later second than its last
\* write
C11_Witness ==
    /\ ret.op = "reset_dialog" /\ ret.raised = NoError
    /\ ret.pre # {} /\ "" \notin Prior
    /\ Stored(ret.current_user, ret.user_id) = {""}
    /\ \A r \in ret.pre :
          r.last_modified_timestamp
             < get_user_last_modified_timestamp(dialogs, ret.current_user, ret.user_id)
    /\ get_user_count(dialogs, ret.current_user) = 1

\* an owner that no request names
Stranger == "bob"

\* the users created under an owner and not deleted since
LiveCreated(cu) == {k \in created : k[1] = cu}

\* C12: through every sequence of creates, deletes, writes, resets and
\* chats, the count of an owner is the number of distinct users that were
\* created under that owner and not deleted since, and user_count returns
\* it; a step changes the count of an owner only by a create or a delete
\* under that owner; an owner without records has count 0.
C12_CountIsLiveCreated ==
    /\ [](/\ \A cu \in CurrentUsers \cup {Stranger} :
                get_user_count(dialogs, cu) = Cardinality(LiveCreated(cu))
          /\ get_user_count(dialogs, Stranger) = 0
          /\ ret.op = "user_count" =>
                ret.user_count = Cardinality(LiveCreated(ret.current_user)))
    /\ [][\A cu \in CurrentUsers \cup {Stranger} :
              get_user_count(dialogs', cu) # get_user_count(dialogs, cu) =>
                  /\ ret'.current_user = cu
                  /\ ret'.op \in {"create_user", "delete_user"}
                  /\ ret'.raised = NoError
        ]_vars

\* the count of an owner whose only user was deleted, read while another
\* owner still has a record
C12_Witness ==
    /\ ret.op = "user_count" /\ ret.user_count = 0
    /\ \E d \in deleted : d[1] = ret.current_user
    /\ \E cu \in CurrentUsers : get_user_count(dialogs, cu) = 1

\* the elements of a sequence
Range(seq) == {seq[i] : i \in 1..Len(seq)}

\* the user ids of an owner
UsersOf(cu) == {r.user_id : r \in {q \in dialogs : q.current_user = cu}}

\* min(100, max(0, n - 100 * page))
PageLength(n, page) ==
    LET rest == IF n - PageSize * page > 0 THEN n - PageSize * page ELSE 0
    IN  IF rest < PageSize THEN rest ELSE PageSize

\* C13: in a fixed state of the store, for an owner with N records and with
\* the rows of equal timestamps coming out in one order, page p of
\* get_all_users_paged holds min(100, max(0, N - 100 p)) user ids, and the
\* pages together hold each user id of the owner exactly once and no user id
\* of another owner (150 records: 100, 50, 0).
C13_PagesPartitionUsers ==
    /\ \A cu \in CurrentUsers \cup {Stranger}, tie \in TieOrders :
          LET n == get_user_count(dialogs, cu)
              pages == [p \in 0..MaxPage |-> get_all_users_paged(dialogs, cu, p, tie)]
              total == [p \in 0..MaxPage |-> PageLength(n, p)]
          IN  /\ \A p \in 0..MaxPage :
                    /\ Len(pages[p]) = PageLength(n, p)
                    /\ Cardinality(Range(pages[p])) = Len(pages[p])
              /\ \A p, q \in 0..MaxPage :
                    p # q => Range(pages[p]) \cap Range(pages[q]) = {}
              /\ UNION {Range(pages[p]) : p \in 0..MaxPage} = UsersOf(cu)
    /\ ret.op = "get_all_users_paged" =>
          /\ Len(ret.users)
                = PageLength(get_user_count(dialogs, ret.current_user), ret.page)
          /\ Range(ret.users) \subseteq UsersOf(ret.current_user)

\* the second page of an owner with 150 records, beside records of another
\* owner
C13_Witness ==
    /\ ret.op = "get_all_users_paged" /\ ret.page = 1
    /\ get_user_count(dialogs, ret.current_user) = 150
    /\ Len(ret.users) = 50
    /\ \E cu \in CurrentUsers :
          cu # ret.current_user /\ UsersOf(cu) \ UsersOf(ret.current_user) # {}

\* pages p, p + 1, ... of an owner, one after the other, up to the first
\* page that is not full
RECURSIVE PagesFrom(_, _, _)
PagesFrom(cu, tie, p) ==
    LET page == get_all_users_paged(dialogs, cu, p, tie)
    IN  IF Len(page) < PageSize \/ p >= MaxPage THEN page
        ELSE page \o PagesFrom(cu, tie, p + 1)

\* the place of a user id in a listing
Place(listing, uid) == CHOOSE i \in 1..Len(listing) : listing[i] = uid

\* the last completed call created or wrote a record: of all records of its
\* owner, this one was modified last
LastModifiedByRet ==
    \/ ret.op = "create_user" /\ ret.raised = NoError
    \/ /\ ret.op \in {"update_user_dialog", "reset_dialog", "chat"}
       /\ ret.pre # {} /\ ret.raised = NoError

\* C14 as stated: a record that was created or written after another record
\* of its owner comes before it in the pages, whatever the seconds of the two
\* modifications; so the record modified last comes first.
C14_MostRecentFirst ==
    LastModifiedByRet =>
        \A uid \in UsersOf(ret.current_user) \ {ret.user_id} :
            \A tie \in TieOrders :
                LET listing == PagesFrom(ret.current_user, tie, 0)
                IN  Place(listing, ret.user_id) < Place(listing, uid)

\* C14, amended: the pages order an owner's users by the stored
\* last_modified_timestamp, the whole second that the last create or write
\* of the record read from the clock: a record with a later second comes
\* before a record with an earlier one; records of the same second come in
\* an order that the query leaves open.
C14_LaterSecondFirst ==
    \A a, b \in dialogs :
        (/\ a.current_user = b.current_user
         /\ a.last_modified_timestamp > b.last_modified_timestamp) =>
            \A tie \in TieOrders :
                LET listing == PagesFrom(a.current_user, tie, 0)
                IN  Place(listing, a.user_id) < Place(listing, b.user_id)

\* a write in a later second than the last modification of another record
\* of the owner puts the written record first
C14_Witness ==
    /\ LastModifiedByRet /\ ret.op # "create_user"
    /\ get_user_count(dialogs, ret.current_user) = 2
    /\ \A r \in dialogs :
          (r.current_user = ret.current_user /\ r.user_id # ret.user_id) =>
              r.last_modified_timestamp
                 < get_user_last_modified_timestamp(dialogs, ret.current_user, ret.user_id)
    /\ \A tie \in TieOrders :
          Head(get_all_users_paged(dialogs, ret.current_user, 0, tie)) = ret.user_id

\* C15: a step that changes the transcript, the datetime or the epoch of a
\* record that it keeps is the UPDATE of update_user_dialog (called
\* directly, by reset or by chat) on that record, and every such UPDATE that
\* meets a record sets the three columns in that one step: the transcript
\* to the dialog of the call, the datetime and the epoch to the clock
\* reading of the call.
C15_TranscriptAndStampsTogether ==
    [][/\ \A k \in Keys :
             LET pre == Matching(dialogs, k[1], k[2])
                 post == Matching(dialogs', k[1], k[2])
             IN  (pre # {} /\ post # {} /\ pre # post) =>
                     \E c \in Callers :
                         /\ update_execute(c)
                         /\ local[c].op \in {"update_user_dialog", "reset_dialog", "chat"}
                         /\ local[c].current_user = k[1]
                         /\ local[c].user_id = k[2]
       /\ \A c \in Callers :
             (/\ update_execute(c)
              /\ Matching(dialogs, local[c].current_user, local[c].user_id) # {}) =>
                 LET l == local[c] IN
                 /\ ret'.raised = NoError
                 /\ Matching(dialogs', l.current_user, l.user_id) =
                       {Row(l.current_user, l.user_id, l.dialog,
                            l.last_modified_datetime, l.last_modified_timestamp)}
                 /\ \E t1, t2 \in 1..now :
                       /\ l.last_modified_datetime = strftime(t1)
                       /\ l.last_modified_timestamp = time_time(t2)
      ]_vars

\* a chat whose write changed the transcript, the datetime and the epoch of
\* its record
C15_Witness ==
    /\ ret.op = "chat" /\ ret.pre # {} /\ ret.raised = NoError
    /\ \A old \in ret.pre, new \in Matching(dialogs, ret.current_user, ret.user_id) :
          /\ new.dialog # old.dialog
          /\ new.last_modified_datetime # old.last_modified_datetime
          /\ new.last_modified_timestamp # old.last_modified_timestamp
    /\ Matching(dialogs, ret.current_user, ret.user_id) # {}

\* what a provider does that is a failure of the request
FailureKinds ==
    {"transport error", "non-200", "malformed body", "no choices",
     "missing text", "empty text", "client construction", "sdk exception"}

\* C16: when the selected provider fails (no credential, a status other
\* than 200, a transport error or timeout, a body that is not JSON or has no
\* choices, a missing or empty text, a client that cannot be constructed, an
\* exception of the SDK), generate_response returns the configured default
\* reply; no exception of the provider call reaches the caller.
C16_FailureGivesDefault ==
    ret.op = "generate_response" =>
        /\ ret.raised = NoError
        /\ (ret.api_key = None \/ ret.kind \in FailureKinds) =>
              ret.response = default_response
        /\ ret.response # ""

\* a request that was sent and answered with a body that is not JSON
C16_Witness ==
    /\ ret.op = "generate_response" /\ ret.kind = "malformed body"
    /\ ret.api_key # None /\ ret.requests = <<"openrouter">>
    /\ ret.response = default_response /\ ret.raised = NoError

\* the provider that default_provider selects
SelectedProvider ==
    IF selected_provider(config) = "openrouter" THEN "openrouter" ELSE "gemini"

RECURSIVE FirstNonBlank(_, _)
FirstNonBlank(env, names) ==
    IF names = << >> THEN None
    ELSE LET value == env[Head(names)]
         IN  IF value # None /\ strip(value) # "" THEN strip(value)
             ELSE FirstNonBlank(env, Tail(names))

\* the credential of a provider as C18 states it
StatedCredential(provider, env, files) ==
    LET names == IF provider = "openrouter" THEN <<"OPENROUTER_API_KEY">>
                 ELSE <<"GEMINI_API_KEY", "GOOGLE_API_KEY">>
        content == files[IF provider = "openrouter" THEN ".api-openrouter"
                         ELSE ".api-gemini"]
    IN  IF FirstNonBlank(env, names) # None THEN FirstNonBlank(env, names)
        ELSE IF content # None /\ strip(content) # "" THEN strip(content)
        ELSE None

\* C18: the first credential resolution of a process yields the trimmed
\* environment variable when it is set to a non-blank value, whether or not
\* the dotfile exists (for Gemini GEMINI_API_KEY, and its alias
\* GOOGLE_API_KEY after it), otherwise the trimmed non-empty content of the
\* dotfile, otherwise no credential.
C18_FirstResolution ==
    [][\A c \in Callers :
          (call_generate_response(c) /\ calls = 0) =>
              ret'.api_key = StatedCredential(SelectedProvider, environ, home)
      ]_vars

\* C19: once the credential of the selected provider is resolved to a
\* value, the cache keeps that value for the rest of the process, and every
\* later call uses it without reading an environment variable or a dotfile,
\* whatever the variables and the dotfiles have become.
C19_CachedCredentialSticks ==
    /\ []((ret.op = "generate_response" /\ ret.cached) =>
             /\ ret.reads = {}
             /\ ret.api_key # None
             /\ ret.api_key = CachedKey(config, ai))
    /\ [][CachedKey(config, ai) # None =>
             CachedKey(config, ai') = CachedKey(config, ai)]_vars

\* a request sent with the cached key after the variable and the dotfile
\* that could have given it are gone
C19_Witness ==
    /\ ret.op = "generate_response" /\ ret.cached
    /\ SelectedProvider = "openrouter"
    /\ environ["OPENROUTER_API_KEY"] = None /\ home[".api-openrouter"] = None
    /\ ret.api_key # None /\ ret.reads = {}
    /\ ret.requests = <<"openrouter">>

\* a model name as C20 states it
StatedModelName(env_value, content, default) ==
    IF env_value # None /\ strip(env_value) # "" THEN strip(env_value)
    ELSE IF content # None /\ strip(content) # "" THEN strip(content)
    ELSE default

\* C20: Config.load gives each model name the trimmed value of its
\* environment variable when that is set and not blank, else the trimmed
\* non-empty content of its dotfile, else the built-in default; and gives
\* default_provider the (trimmed) value of DEFAULT_PROVIDER when that is
\* set, else "openrouter".
C20_LoadResolvesNames ==
    ret.op = "Config.load" =>
        /\ ret.loaded.openrouter_model_name =
              StatedModelName(environ["OPENROUTER_MODEL_NAME"],
                              home[".model-openrouter"],
                              DefaultConfig.openrouter_model_name)
        /\ ret.loaded.gemini_model_name =
              StatedModelName(environ["GEMINI_MODEL_NAME"],
                              home[".model-gemini"],
                              DefaultConfig.gemini_model_name)
        /\ ret.loaded.default_provider =
              IF environ["DEFAULT_PROVIDER"] # None
              THEN strip(environ["DEFAULT_PROVIDER"])
              ELSE "openrouter"

\* C21: when OPENROUTER_MODEL_NAME is not set and ~/.model-openrouter does not
\* exist, Config.load yields openrouter_model_name "openrouter/horizon-beta".
C21_DefaultOpenRouterModel ==
    (/\ ret.op = "Config.load"
     /\ environ["OPENROUTER_MODEL_NAME"] = None
     /\ home[".model-openrouter"] = None)
        => ret.loaded.openrouter_model_name = "openrouter/horizon-beta"

\* the tools of api.py
ToolOps ==
    {"check_user", "user_count", "get_dialog_str", "get_dialog_json",
     "create_user", "delete_user", "reset_dialog", "chat"}

\* the owner of a request as C22 states it
StatedOwner(header) ==
    IF header = NoHeader THEN "0_no_current_user_specified" ELSE header

\* C22: a tool call acts under the owner named by the current-user header of
\* its request, or under "0_no_current_user_specified" when the request has no
\* such header; what it reports (exists, the count, the transcript, the old
\* dialog that chat reads) is taken from the records of that owner alone, and
\* a step that changes the table leaves every record of another owner, also
\* one with the same user id, as it was.
C22_OwnersAreIsolated ==
    /\ [](ret.op \in ToolOps =>
            LET A == StatedOwner(ret.header)
                own == {r \in dialogs : r.current_user = A /\ r.user_id = ret.user_id}
            IN  /\ ret.current_user = A
                /\ ret.op = "check_user" => (ret.exists <=> own # {})
                /\ ret.op = "user_count" =>
                      ret.user_count = Cardinality({r \in dialogs : r.current_user = A})
                /\ ret.op \in {"get_dialog_str", "get_dialog_json"} =>
                      IF own = {} THEN ret.dialog = ""
                      ELSE \E r \in own : ret.dialog = r.dialog)
    /\ [][/\ dialogs' # dialogs =>
              \A r \in dialogs \cup dialogs' :
                  r.current_user # ret'.current_user => r \in dialogs \cap dialogs'
          /\ \A c \in Callers :
                (pc[c] = "idle" /\ pc'[c] = "generate") =>
                   LET A == StatedOwner(local'[c].header)
                       own == {r \in dialogs : r.current_user = A
                                                /\ r.user_id = local'[c].user_id}
                   IN  IF own = {} THEN local'[c].old_dialog = ""
                       ELSE \E r \in own : local'[c].old_dialog = r.dialog]_vars

\* a request without the header has deleted the record u1 of the default
\* owner, and alice's record u1 is still there with its transcript
C22_Witness ==
    /\ ret.op = "delete_user" /\ ret.header = NoHeader /\ ret.user_id = "u1"
    /\ ret.pre # {}
    /\ \A r \in dialogs : r.current_user # "0_no_current_user_specified"
    /\ \E r \in dialogs : r.current_user = "alice" /\ r.user_id = "u1" /\ r.dialog # ""

\* the functions of db.py
StoreOps ==
    ReadFunctions \cup {"add_user_to_db", "update_user_dialog", "delete_user_from_db"}

\* how often event e is among the calls made on a connection
Count(events, e) == Cardinality({i \in 1..Len(events) : events[i] = e})

\* the connections that the events leave open
LeftOpen(events) == Count(events, "connect") - Count(events, "close")

Joined == {<<turns, json_to_dialog(turns)>> : turns \in TurnSeqs}
TurnsOf(dialog) == {j[1] : j \in {k \in Joined : k[2] = dialog}}

\* the entries that C24 states for the turns
StatedEntries(turns) ==
    [i \in 1..Len(turns) |->
        [index |-> i - 1, name |-> turns[i][1], message |-> turns[i][2]]]

\* C24 as stated: for the transcript made of n turns Name said: "msg" joined
\* by spaces (names without a colon, messages without a double quote, both
\* without white space at their ends), dialog_to_json returns the n entries
\* in order, entry i with index i, the name and the message of turn i; for
\* the empty transcript it returns the empty list.
C24_ParsesEveryTurn ==
    ret.op = "get_dialog_json" =>
        \A turns \in TurnsOf(ret.dialog) :
            ret.dialog_list = StatedEntries(turns)

\* C24 for transcripts whose first turn has a name that is not empty: the
\* entries are the turns, in order, with indexes from 0; the empty transcript
\* gives the empty list.
C24_ParsesWhenFirstNamed ==
    ret.op = "get_dialog_json" =>
        \A turns \in TurnsOf(ret.dialog) :
            (turns # << >> => turns[1][1] # "")
                => ret.dialog_list = StatedEntries(turns)

\* two turns were parsed: a name that ends in " said" with a message that
\* has a colon, and a name with a double quote with the empty message
C24_Witness ==
    /\ ret.op = "get_dialog_json"
    /\ ret.dialog = json_to_dialog(<< <<"Bob said", "a: b">>, <<"a\"b", "">> >>)
    /\ ret.dialog_list = << [index |-> 0, name |-> "Bob said", message |-> "a: b"],
                            [index |-> 1, name |-> "a\"b", message |-> ""] >>

\* the operations that write one record, and those that only read
WriteOps == {"create_user", "update_user_dialog", "reset_dialog", "delete_user", "chat"}
ReadOps ==
    {"check_user", "user_count", "get_dialog_str", "get_dialog_json",
     "get_all_users_paged", "get_user_last_modified"}

\* C25: a step that changes the table belongs to a create, a transcript
\* write, a reset, a delete or a chat, and leaves every record with another
\* (owner, user) key as it was, in all fields; the read-only operations
\* (exists, count, the two dialog views, a page of users, last modified) and
\* the first step of a call (the read of the old dialog by chat, the clock
\* reads of create, write and reset) leave the whole table as it was.
C25_OtherRecordsUntouched ==
    [][/\ dialogs' # dialogs =>
            /\ ret'.op \in WriteOps
            /\ \A r \in dialogs \cup dialogs' :
                  <<r.current_user, r.user_id>> # <<ret'.current_user, ret'.user_id>>
                     => r \in dialogs \cap dialogs'
       /\ (calls' # calls /\ ret'.op \in ReadOps /\ pc' = pc) => dialogs' = dialogs
       /\ (\E c \in Callers : pc[c] = "idle" /\ pc'[c] # "idle") => dialogs' = dialogs
      ]_vars

\* a chat wrote the record u1 of the default owner in second 2, and alice's
\* record u1 has the transcript and the timestamps of second 1
C25_Witness ==
    /\ ret.op = "chat" /\ ret.current_user = NoCurrentUser /\ ret.user_id = "u1"
    /\ ret.pre # {}
    /\ \E r \in dialogs :
          /\ r.current_user = NoCurrentUser /\ r.user_id = "u1"
          /\ r.dialog # "" /\ r.last_modified_timestamp = 2
    /\ Row("alice", "u1", complete_dialog(prompt_dialog("", "hi"), "hello"),
           strftime(1), time_time(1)) \in dialogs

\* transcript d begins with the non-empty transcript t
BeginsWith(d, t) == t # "" /\ Len(t) <= Len(d) /\ SubSeq(d, 1, Len(t)) = t

\* C26: when a reset of a record completed while a chat on the same record
\* was in flight (it had read the transcript and not yet written), the
\* transcript that is stored once the chat has written holds none of the
\* turns that the chat read, which were all persisted before the reset.
C26_ResetOutlivesChatsInFlight ==
    (ret.op = "chat" /\ ret.wiped) =>
        \A d \in Stored(ret.current_user, ret.user_id) :
            ~BeginsWith(d, ret.old_dialog)

\* C27: no committed write lowers last_modified_timestamp of a record: in
\* every step, a row that stays in the table has a timestamp at least as
\* large as before, however the writers interleave.
C27_EpochNeverDecreases ==
    [][\A r \in dialogs : \A q \in Matching(dialogs', r.current_user, r.user_id) :
          q.last_modified_timestamp >= r.last_modified_timestamp]_vars

\* C28: a resolution that finds no credential leaves the cache empty, and
\* the call returns the default reply without sending a request; the next
\* call resolves again (it reads the environment), and when a variable or
\* the dotfile of the selected provider holds a key by then, the call uses
\* that key and it is the cached credential from then on.
C28_FailureIsNotCached ==
    /\ []((ret.op = "generate_response" /\ ret.api_key = None) =>
             /\ ret.response = default_response
             /\ ret.requests = << >>
             /\ CachedKey(config, ai) = None)
    /\ [][\A c \in Callers :
             (/\ ret.op = "generate_response" /\ ret.api_key = None
              /\ call_generate_response(c)) =>
                 LET stated == StatedCredential(SelectedProvider, environ, home)
                 IN  /\ ret'.reads # {}
                     /\ ret'.api_key = stated
                     /\ stated # None =>
                           /\ CachedKey(config, ai') = stated
                           /\ ret'.kind # "client construction"
                                 => ret'.requests = <<SelectedProvider>>
          ]_vars

\* the provider that the description selects for a value of default_provider
StatedProvider(name) ==
    IF strip(lower(name)) \in {"openrouter", ""} THEN "openrouter" ELSE "gemini"

\* the variables, dotfile and module globals of a provider
ProviderSources(provider) ==
    IF provider = "openrouter"
    THEN {"OPENROUTER_API_KEY", ".api-openrouter"}
    ELSE {"GEMINI_API_KEY", "GOOGLE_API_KEY", ".api-gemini"}

ProviderGlobals(provider) ==
    IF provider = "openrouter" THEN {"_OPENROUTER_API_KEY"}
    ELSE {"_GEMINI_API_KEY", "_CLIENT"}

\* C29: a call of generate_response goes to OpenRouter exactly when
\* default_provider, lower-cased and trimmed, is "openrouter" or empty, and
\* to Gemini for every other value: the call resolves the credential of
\* that provider and of no other, sends its request (when it has a
\* credential and a client) to that provider, and leaves the globals of the
\* other provider as they were at import.
C29_ProviderSelection ==
    ret.op = "generate_response" =>
        LET stated == StatedProvider(config.default_provider)
            other == IF stated = "openrouter" THEN "gemini" ELSE "openrouter"
        IN  /\ ret.reads \subseteq ProviderSources(stated)
            /\ \A i \in 1..Len(ret.requests) : ret.requests[i] = stated
            /\ (ret.api_key # None /\ ret.kind # "client construction")
                   => ret.requests = <<stated>>
            /\ ret.api_key = None => ret.reads # {}
            /\ \A g \in ProviderGlobals(other) : ai[g] = None

\* a text without a double quote and without white space at its ends
Plain(text) ==
    /\ strip(text) = text
    /\ \A i \in 1..Len(text) : Char(text, i) # "\""

\* the turns that the description gives for the chats of a session
StatedTurns(turns) ==
    [i \in 1..(2 * Len(turns)) |->
        IF i % 2 = 1
        THEN [index |-> i - 1, name |-> "User", message |-> turns[(i + 1) \div 2].message]
        ELSE [index |-> i - 1, name |-> "Waifu", message |-> turns[i \div 2].response]]

\* C30: when a record was created and n chats followed on it, one after
\* the other, with messages and replies free of double quotes and of white
\* space at their ends, get_dialog_json returns 2n turns, indexed from 0,
\* turn 2k-2 being the k-th message under the name User and turn 2k-1 the
\* k-th reply under the name Waifu, be the reply the provider's text or
\* the default response.
C30_ViewOfSequentialChats ==
    ret.op = "get_dialog_json" =>
        LET s == session[<<ret.current_user, ret.user_id>>] IN
        (/\ s.open
         /\ \A k \in 1..Len(s.turns) :
               Plain(s.turns[k].message) /\ Plain(s.turns[k].response))
            => ret.dialog_list = StatedTurns(s.turns)

\* two chats after a create, one answered by the provider and one not, and
\* the view read
C30_Witness ==
    /\ ret.op = "get_dialog_json"
    /\ LET s == session[<<ret.current_user, ret.user_id>>] IN
        /\ s.open
        /\ Len(s.turns) = 2
        /\ \A k \in 1..2 : Plain(s.turns[k].message)
        /\ s.turns[1].response = default_response
        /\ s.turns[2].response = "hello"
        /\ s.turns[1].message = "a said: b"
    /\ Len(ret.dialog_list) = 4

====
